---- MODULE Spec2Model ----
(***************************************************************************)
(* Model of the voice-assistant front end (KaransCallAgent):               *)
(*   - useConversationTranscription  (transcription reconciler)            *)
(*   - useLiveKitRoom / useLiveKitConnection  (real-time session manager)  *)
(*   - App / RoomHandler  (token flow, usage limit, attribute propagation) *)
(* Each component has its own specification; the variables of the other    *)
(* components keep their initial values under it.                          *)
(***************************************************************************)
EXTENDS Integers, Sequences, FiniteSets, TLC

NULL == "null"

(***************************************************************************)
(* Bounds of the model.                                                    *)
(***************************************************************************)
\* Date.now() is modelled by a clock that ticks up to MaxTime.
MaxTime == 1
\* Number of segment events the transport delivers (both streams together).
MaxEvents == 2
\* Number of connect() invocations of a session hook.
MaxCalls == 2
\* Number of toggleMic() invocations that reach the token endpoint.
MaxToggles == 2
\* Number of handleUsageIncrement() requests in flight at once.
MaxIncr == 1
\* Number of startRecording() invocations.
MaxStarts == 2
\* Number of playAudio() invocations.
MaxPlays == 2
\* Number of speech intervals that end in a delivery or are still open.
MaxSpeech == 2

VARIABLES
    \* ---- useConversationTranscription (src/unnamed/part_006) ----
    userTranscriptions,   \* segments of useTrackTranscription(userMicTrackRef)
    agentTranscriptions,  \* agentTranscriptions of useVoiceAssistant()
    messages,             \* useState<ChatMessage[]>: the finalized log
    processedSegments,    \* useRef<Set<string>>: ids already realised as final
    now,                  \* Date.now()
    events,               \* segment events delivered so far
    finalSeen,            \* history: per prefixed id, how often a final segment
                          \* with that id was put before the processing effect
                          \* (capped at 2), and whether its text was ever non-blank
    memoTime,             \* Date.now() when the allMessages memo was computed last
    delivered,            \* history: per stream, the segment that arrived last
    prevInterim,          \* history: per stream, the interim text before it arrived
    lastStream,           \* history: the stream whose segment arrived in the step
                          \* just taken, "none" after any other step
    pendingReplay         \* history: the streams that delivered no segment since
                          \* the last clearMessages()

tvars == <<userTranscriptions, agentTranscriptions, messages, processedSegments,
           now, events, finalSeen, memoTime, delivered, prevInterim,
           lastStream, pendingReplay>>

VARIABLES
    \* ---- useLiveKitRoom / useLiveKitConnection (src/src/hooks/useLiveKitRoom.ts) ----
    hook,            \* which of the two session hooks is mounted
    lkState,         \* useState<LiveKitState> / useState<LiveKitConnectionState>
    room,            \* useLiveKitRoom: useState<Room | null> (0 is null);
                     \* useLiveKitConnection: the one Room of the hook
    rooms,           \* the Room objects: transport state and microphone
    connectionInfo,  \* useLiveKitConnection: useState<ConnectionInfo | null>
    calls,           \* the connect() invocations and where each is suspended
    nCalls,          \* connect() invocations started so far
    toggle,          \* the toggleMic() invocation suspended on setMicrophoneEnabled
    attrWrites,      \* history: transport states in which setAttributes was issued
    micIssued,       \* history: transport states in which connect() asked for the mic
    lastOp,          \* history: the operation / event that ran last
    discAfter,       \* history: what ran before the disconnect() that ran last
    trace,           \* history: session states passed through by an undisturbed
                     \* first connect() (<<>> once anything else has happened)
    subscribed,      \* per Room: the remote tracks currently subscribed
    body,            \* document.body: the playback elements appended to it, each
                     \* named by the Room and track it was attached for
    lastRemoved,     \* history: the elements the last handler removed
    hungUp           \* history: disconnect() was called and connect() has not
                     \* been called since

trkvars == <<subscribed, body, lastRemoved>>

svars == <<hook, lkState, room, rooms, connectionInfo, calls, nCalls, toggle,
           attrWrites, micIssued, lastOp, discAfter, trace, trkvars, hungUp>>

VARIABLES
    \* ---- App, LiveKitRoom and RoomHandler (src/unnamed/part_002) ----
    isLimitReached,  \* useState(false)
    liveKitToken,    \* useState<string | null>(null)
    liveKitUrl,      \* useState<string | null>(null)
    isMicActive,     \* useState(false)
    assistantState,  \* useState<AssistantState>('IDLE')
    isConnecting,    \* useState(false)
    toggles,         \* the toggleMic() invocations: "idle", "fetch" (awaiting the
                     \* token endpoint), or how they ended
    nToggles,        \* toggleMic() invocations that went to the token endpoint
    usageCheck,      \* the mount-time checkUsage(): "pending" or "done"
    pendingIncr,     \* handleUsageIncrement() invocations awaiting their response
    roomState,       \* state of the Room of the mounted <LiveKitRoom>
    ttsVoice,        \* useState(localStorage tts_voice || 'arcas')
    agentPrompt,     \* useState("")
    businessDetails, \* useState("")
    lastRefs,        \* RoomHandler: lastVoiceRef, lastPromptRef, lastBusinessRef
    remoteAttrs,     \* the value last written per attribute key on this Room
    redundantKeys,   \* history: keys written with the value already written last
    usageProcessed,  \* RoomHandler: useRef<Set<string>>, the counted segment ids
    usageIssued,     \* history: the ids the mounted RoomHandler has issued an
                     \* increment request for
    usageRepeated,   \* history: the ids it has issued more than one request for
    usageFinals,     \* history: the ids the mounted RoomHandler has seen final
    usageRedelivered,\* history: it was shown a final segment it had seen final
    storedVoice,     \* localStorage['tts_voice']
    storedAtStartup, \* history: localStorage['tts_voice'] when App was created
    startupVoice     \* history: ttsVoice when App was created

avars == <<isLimitReached, liveKitToken, liveKitUrl, isMicActive, assistantState,
           isConnecting, toggles, nToggles, usageCheck, pendingIncr, roomState,
           ttsVoice, agentPrompt, businessDetails, lastRefs, remoteAttrs,
           redundantKeys, usageProcessed, usageIssued, usageRepeated, usageFinals,
           usageRedelivered, storedVoice, storedAtStartup, startupVoice>>

VARIABLES
    \* ---- useAudioRecorder (src/src/hooks/useLiveKitRoom.ts, lines 234-407) ----
    recMounted,        \* the component using the hook is mounted
    vadLoaded,         \* window.vad is defined (the CDN script has loaded)
    isRecording,       \* useState(false)
    recError,          \* useState<string | null>(null)
    analyser,          \* useState<AnalyserNode | null>(null): 0, or its context
    isSpeechDetected,  \* useState(false)
    vadRef,            \* useRef<any>(null): 0, or the detector it refers to
    streamRef,         \* useRef<MediaStream | null>(null): 0, or the stream
    audioContextRef,   \* useRef<AudioContext | null>(null): 0, or the context
    starts,            \* the startRecording() invocations and where they are
    nStarts,           \* startRecording() invocations so far
    streams,           \* capture streams: "none", "live", "stopped" (its tracks)
    vads,              \* detectors: "none", "running", "paused"
    ctxs,              \* analysis contexts: "none", "open", "closed"
    recOp,             \* history: the recorder operation that ran last
    stopTargets,       \* history: what the refs held when stopRecording() was
                       \* called last
    speaking,          \* the detectors that are inside a speech interval
    inSpeech,          \* history: a speech-start callback ran, and no speech-end
                       \* callback, misfire callback or stopRecording() since
    ended,             \* history: the segments passed to onSpeechEnd, in order
    audioData          \* history: the payloads passed to onAudioData, in order

spvars == <<speaking, inSpeech, ended, audioData>>

rvars == <<recMounted, vadLoaded, isRecording, recError, analyser,
           isSpeechDetected, vadRef, streamRef, audioContextRef, starts, nStarts,
           streams, vads, ctxs, recOp, stopTargets, spvars>>

VARIABLES
    \* ---- useAudioPlayer (src/unnamed/part_007) ----
    playerCtx,       \* audioContextRef: "none", or the state of the AudioContext
    analyserReady,   \* analyserRef.current is set
    audioEl,         \* audioElementRef: "none", or "paused" / "playing"
    activeSources,   \* activeSourcesRef.current, the registry
    sources,         \* the AudioBufferSourceNodes: "none", "playing", "finished"
                     \* or "stopped" (ended event pending), "ended"
    isPlaying,       \* useState(false)
    plays,           \* the playAudio() invocations and where they are
    payloads,        \* the payload each playAudio() invocation was given
    nPlays,          \* playAudio() invocations so far
    playerOp,        \* history: the player operation that ran last
    stoppedInFlight  \* history: the playAudio() invocations that were suspended
                     \* at an await when stopAllAudio() ran

pvars == <<playerCtx, analyserReady, audioEl, activeSources, sources, isPlaying,
           plays, payloads, nPlays, playerOp, stoppedInFlight>>

vars == <<tvars, svars, avars, rvars, pvars>>

(***************************************************************************)
(* Initial values of the session hooks (also the values these variables    *)
(* keep under the other components' specifications).                       *)
(***************************************************************************)
HookRoom == "useLiveKitRoom"
HookConn == "useLiveKitConnection"
CallIds == 1..MaxCalls
\* useLiveKitRoom creates Room c in its c-th connect(); useLiveKitConnection
\* creates Room 1 when it mounts and uses no other.
RoomIds == 1..MaxCalls
\* The tracks a remote participant can publish, and their kinds
RemoteTracks == {"audio1", "audio2", "video1"}
KindOf(t) == IF t = "video1" THEN "video" ELSE "audio"

InitialLkState ==
    [isConnected |-> FALSE, isConnecting |-> FALSE, isMicEnabled |-> FALSE,
     error |-> NULL, roomName |-> NULL]

NoToggle == [active |-> FALSE, room |-> 0, newState |-> FALSE]

NewRoom == [state |-> "disconnected", mic |-> FALSE, credsOk |-> FALSE]

SessionInit(h) ==
    /\ hook = h
    /\ lkState = InitialLkState
    /\ room = IF h = HookRoom THEN 0 ELSE 1
    /\ rooms = [r \in RoomIds |-> NewRoom]
    /\ connectionInfo = NULL
    /\ calls = [c \in CallIds |-> "idle"]
    /\ nCalls = 0
    /\ toggle = NoToggle
    /\ attrWrites = {}
    /\ micIssued = {}
    /\ lastOp = "init"
    /\ discAfter = "none"
    /\ trace = <<"disconnected">>
    /\ subscribed = [r \in RoomIds |-> {}]
    /\ body = {}
    /\ lastRemoved = {}
    /\ hungUp = FALSE

(***************************************************************************)
(* Initial values of App.                                                  *)
(***************************************************************************)
ToggleIds == 1..MaxToggles
Voices == {"arcas", "luna"}
Prompts == {"", "p"}
Businesses == {"", "b"}
AttrKeys == {"tts_voice", "agent_prompt", "business_details"}

NoRefs == [voice |-> NULL, prompt |-> NULL, business |-> NULL]
NoAttrs == [k \in AttrKeys |-> NULL]

\* useState(() => localStorage.getItem('tts_voice') || 'arcas')
InitialTtsVoice(stored) == IF stored \in {NULL, ""} THEN "arcas" ELSE stored

\* A voice effect that writes nothing to localStorage.
StoredAfterVoiceEffectSkipped(stored, voice) == stored

\* useEffect(() => { localStorage.setItem('tts_voice', ttsVoice) }, [ttsVoice])
StoredAfterVoiceEffect(stored, voice) == voice

\* App after its first render and mount effects, created with `stored` under
\* the key tts_voice of localStorage (NULL when the key is absent).
AppInitFrom(stored) ==
    /\ isLimitReached = FALSE
    /\ liveKitToken = NULL
    /\ liveKitUrl = NULL
    /\ isMicActive = FALSE
    /\ assistantState = "IDLE"
    /\ isConnecting = FALSE
    /\ toggles = [t \in ToggleIds |-> "idle"]
    /\ nToggles = 0
    /\ usageCheck = "pending"
    /\ pendingIncr = 0
    /\ roomState = "disconnected"
    /\ ttsVoice = InitialTtsVoice(stored)
    /\ agentPrompt = ""
    /\ businessDetails = ""
    /\ lastRefs = NoRefs
    /\ remoteAttrs = NoAttrs
    /\ redundantKeys = {}
    /\ usageProcessed = {}
    /\ usageIssued = {}
    /\ usageRepeated = {}
    /\ usageFinals = {}
    /\ usageRedelivered = FALSE
    /\ storedAtStartup = stored
    /\ startupVoice = InitialTtsVoice(stored)
    /\ storedVoice = StoredAfterVoiceEffect(stored, InitialTtsVoice(stored))

AppInit == AppInitFrom(NULL)

(***************************************************************************)
(* Initial values of useAudioPlayer, after the mount effect has run        *)
(* initBridge().  initBridge() either completes ("ok") or throws into its  *)
(* catch block at new AudioContext ("noContext"), between the context and  *)
(* the analyser ("noAnalyser"), or at the creation of the <audio> element  *)
(* ("noElement").  The source a playAudio() invocation starts carries the  *)
(* number of the invocation.                                               *)
(***************************************************************************)
PlayIds == 1..MaxPlays
BridgeInits == {"ok", "noContext", "noAnalyser", "noElement"}
ContextStates == {"suspended", "running"}
Payloads == {"ok", "badBase64", "badAudio"}

PlayerInit(bridge, ctxState) ==
    /\ playerCtx = IF bridge = "noContext" THEN "none" ELSE ctxState
    /\ analyserReady = (bridge \in {"ok", "noElement"})
    /\ audioEl = IF bridge = "ok" THEN "paused" ELSE "none"
    /\ activeSources = <<>>
    /\ sources = [s \in PlayIds |-> "none"]
    /\ isPlaying = FALSE
    /\ plays = [c \in PlayIds |-> "idle"]
    /\ payloads = [c \in PlayIds |-> "ok"]
    /\ nPlays = 0
    /\ playerOp = "init"
    /\ stoppedInFlight = {}

(***************************************************************************)
(* Initial values of useAudioRecorder.  The stream, the detector and the   *)
(* analysis context a startRecording() invocation creates carry the number *)
(* of the invocation.                                                      *)
(***************************************************************************)
StartIds == 1..MaxStarts
NoTargets == [vad |-> 0, stream |-> 0, ctx |-> 0]

RecorderInit(loaded) ==
    /\ recMounted = TRUE
    /\ vadLoaded = loaded
    /\ isRecording = FALSE
    /\ recError = NULL
    /\ analyser = 0
    /\ isSpeechDetected = FALSE
    /\ vadRef = 0
    /\ streamRef = 0
    /\ audioContextRef = 0
    /\ starts = [c \in StartIds |-> "idle"]
    /\ nStarts = 0
    /\ streams = [c \in StartIds |-> "none"]
    /\ vads = [c \in StartIds |-> "none"]
    /\ ctxs = [c \in StartIds |-> "none"]
    /\ recOp = "init"
    /\ stopTargets = NoTargets
    /\ speaking = {}
    /\ inSpeech = FALSE
    /\ ended = <<>>
    /\ audioData = <<>>

(***************************************************************************)
(* Texts are sequences of characters so that trim() is computed, not       *)
(* assumed.  <<" ">> is a blank text, "foo" is <<"f">>, "foobar" is        *)
(* <<"f","b">>.                                                            *)
(***************************************************************************)
Texts == { <<" ">>, <<"f">>, <<"f", "b">> }
SegIds == {"A", "B"}
Roles == {"user", "agent"}

RECURSIVE TrimLeft(_)
TrimLeft(t) == IF t # <<>> /\ Head(t) = " " THEN TrimLeft(Tail(t)) ELSE t

RECURSIVE TrimRight(_)
TrimRight(t) ==
    IF t # <<>> /\ t[Len(t)] = " " THEN TrimRight(SubSeq(t, 1, Len(t) - 1)) ELSE t

\* String.prototype.trim()
Trim(t) == TrimRight(TrimLeft(t))

\* `${prefix}-${segId}`
PrefixedId(prefix, segId) == <<prefix, segId>>

\* role field of the message appended for a stream
RoleOf(prefix) == IF prefix = "user" THEN "user" ELSE "assistant"

Segments == [id : SegIds, final : BOOLEAN, text : Texts]

RECURSIVE FilterOutId(_, _)
\* prev.filter(m => m.id !== id)
FilterOutId(log, id) ==
    IF log = <<>> THEN <<>>
    ELSE IF Head(log).id = id THEN FilterOutId(Tail(log), id)
         ELSE <<Head(log)>> \o FilterOutId(Tail(log), id)

\* The segment list a livekit transcription hook exposes after a new segment
\* arrives: an earlier segment with the same id is replaced by the new one,
\* which is listed last.
MergeSegment(segs, seg) == FilterOutId(segs, seg.id) \o <<seg>>

\* The append without its seg.text.trim() guard.
AppendFinalAnyText(log, prefix, seg, t) ==
    FilterOutId(log, PrefixedId(prefix, seg.id)) \o
      << [id |-> PrefixedId(prefix, seg.id), role |-> RoleOf(prefix),
          text |-> seg.text, isFinal |-> TRUE, timestamp |-> t] >>

\* The guarded append inside a processing effect:
\*   if (seg.text.trim()) setMessages(prev => [...prev.filter(..), {...}])
AppendFinal(log, prefix, seg, t) ==
    IF Trim(seg.text) # <<>>
    THEN FilterOutId(log, PrefixedId(prefix, seg.id)) \o
           << [id |-> PrefixedId(prefix, seg.id), role |-> RoleOf(prefix),
               text |-> seg.text, isFinal |-> TRUE, timestamp |-> t] >>
    ELSE log

\* The guard without its seen-id conjunct.
IsNewFinalIgnoringSeen(seen, prefix, seg) == seg.final

\* The guard without its seg.final conjunct.
IsNewFinalAnySegment(seen, prefix, seg) == PrefixedId(prefix, seg.id) \notin seen

\* seg.final && !processedSegments.current.has(`${prefix}-${segId}`)
IsNewFinal(seen, prefix, seg) ==
    seg.final /\ PrefixedId(prefix, seg.id) \notin seen

RECURSIVE ProcessSegmentsNoDedup(_, _, _, _, _)
\* A processing effect that appends every final segment it iterates over,
\* without consulting the seen-id record or the log.
ProcessSegmentsNoDedup(segs, prefix, log, seen, t) ==
    IF segs = <<>> THEN <<log, seen>>
    ELSE LET seg == Head(segs) IN
         IF seg.final
         THEN ProcessSegmentsNoDedup(Tail(segs), prefix,
                  log \o << [id |-> PrefixedId(prefix, seg.id),
                             role |-> RoleOf(prefix), text |-> seg.text,
                             isFinal |-> TRUE, timestamp |-> t] >>,
                  seen \cup {PrefixedId(prefix, seg.id)}, t)
         ELSE ProcessSegmentsNoDedup(Tail(segs), prefix, log, seen, t)

RECURSIVE ProcessSegments(_, _, _, _, _)
\* The body of a processing effect: forEach over the segment list, left to
\* right.  Returns the pair <<messages, processedSegments>> after the loop.
ProcessSegments(segs, prefix, log, seen, t) ==
    IF segs = <<>> THEN <<log, seen>>
    ELSE LET seg == Head(segs) IN
         IF IsNewFinal(seen, prefix, seg)
         THEN ProcessSegments(Tail(segs), prefix,
                              AppendFinal(log, prefix, seg, t),
                              seen \cup {PrefixedId(prefix, seg.id)}, t)
         ELSE ProcessSegments(Tail(segs), prefix, log, seen, t)

\* History bookkeeping: the final segments an effect run iterates over.
FinalIdsOf(segs, prefix) ==
    { PrefixedId(prefix, segs[i].id) : i \in { j \in 1..Len(segs) : segs[j].final } }

NonBlankFinalIdsOf(segs, prefix) ==
    { PrefixedId(prefix, segs[i].id) :
        i \in { j \in 1..Len(segs) : segs[j].final /\ Trim(segs[j].text) # <<>> } }

AllPrefixedIds == { PrefixedId(p, s) : p \in Roles, s \in SegIds }

NoteFinals(hist, segs, prefix) ==
    [ k \in AllPrefixedIds |->
        IF k \in FinalIdsOf(segs, prefix)
        THEN [n |-> IF hist[k].n < 2 THEN hist[k].n + 1 ELSE 2,
              firstNonBlank |-> IF hist[k].n = 0
                                THEN k \in NonBlankFinalIdsOf(segs, prefix)
                                ELSE hist[k].firstNonBlank,
              cleared |-> hist[k].cleared]
        ELSE hist[k] ]

\* The interim memos return null when there is no interim text; a text that
\* is exposed is never empty, so the empty text stands for null.
NoInterim == <<>>

NoSegment == [id |-> NULL, final |-> FALSE, text |-> <<>>]

\* An interim memo that reads the first segment of the list.
CurrentInterimOfFirst(segs) ==
    IF segs = <<>> THEN NoInterim
    ELSE IF ~segs[1].final /\ Trim(segs[1].text) # <<>> THEN segs[1].text
         ELSE NoInterim

\* currentUserInterim / currentAgentInterim: the text of the last segment of
\* the list when it is non-final and non-blank, else null.
CurrentInterim(segs) ==
    IF segs = <<>> THEN NoInterim
    ELSE LET latest == segs[Len(segs)] IN
         IF ~latest.final /\ Trim(latest.text) # <<>> THEN latest.text ELSE NoInterim

\* The entries allMessages pushes after the finalized log: user-interim,
\* then agent-interim, each only when its interim text is not null.
WithInterims(log, userInterim, agentInterim, t) ==
    log \o (IF userInterim # NoInterim
            THEN << [id |-> PrefixedId("user", "interim"), role |-> "user",
                     text |-> userInterim, isFinal |-> FALSE, timestamp |-> t] >>
            ELSE <<>>)
        \o (IF agentInterim # NoInterim
            THEN << [id |-> PrefixedId("agent", "interim"), role |-> "assistant",
                     text |-> agentInterim, isFinal |-> FALSE, timestamp |-> t] >>
            ELSE <<>>)

RECURSIVE InsertByTimestamp(_, _)
\* Insertion after every entry whose timestamp is not greater (stable).
InsertByTimestamp(sorted, m) ==
    IF sorted = <<>> THEN <<m>>
    ELSE IF Head(sorted).timestamp <= m.timestamp
         THEN <<Head(sorted)>> \o InsertByTimestamp(Tail(sorted), m)
         ELSE <<m>> \o sorted

\* The result list left in the order it was built.
SortByTimestampSkipped(list) == list

RECURSIVE SortByTimestamp(_)
\* result.sort((a, b) => a.timestamp - b.timestamp); Array.prototype.sort
\* is stable.
SortByTimestamp(list) ==
    IF list = <<>> THEN <<>>
    ELSE InsertByTimestamp(SortByTimestamp(SubSeq(list, 1, Len(list) - 1)),
                           list[Len(list)])

\* allMessages, the transcript the hook returns.
AllMessages ==
    SortByTimestamp(WithInterims(messages, CurrentInterim(userTranscriptions),
                                 CurrentInterim(agentTranscriptions), memoTime))

\* The allMessages memo is computed again when messages was set or an interim
\* memo returns another value; its interim entries take Date.now() then.
MemoTimeAfter(messagesSet, userSegs, agentSegs) ==
    IF \/ messagesSet
       \/ CurrentInterim(userSegs) # CurrentInterim(userTranscriptions)
       \/ CurrentInterim(agentSegs) # CurrentInterim(agentTranscriptions)
    THEN now
    ELSE memoTime

TranscriptInit ==
    /\ memoTime = 0
    /\ delivered = [r \in Roles |-> NoSegment]
    /\ prevInterim = [r \in Roles |-> NoInterim]
    /\ userTranscriptions = <<>>
    /\ agentTranscriptions = <<>>
    /\ messages = <<>>
    /\ processedSegments = {}
    /\ now = 0
    /\ events = 0
    /\ finalSeen = [k \in AllPrefixedIds |->
                      [n |-> 0, firstNonBlank |-> FALSE, cleared |-> FALSE]]
    /\ lastStream = "none"
    /\ pendingReplay = {}

InitTranscript ==
    TranscriptInit /\ SessionInit(HookRoom) /\ AppInit /\ RecorderInit(TRUE)
    /\ PlayerInit("ok", "suspended")

\* A segment arrives on the user stream; the "Process user transcriptions"
\* effect runs over the updated list.
UserSegmentsUpdate ==
    /\ events < MaxEvents
    /\ \E seg \in Segments :
         LET segs == MergeSegment(userTranscriptions, seg)
             r == ProcessSegments(segs, "user", messages, processedSegments, now)
         IN /\ userTranscriptions' = segs
            /\ messages' = r[1]
            /\ processedSegments' = r[2]
            /\ finalSeen' = NoteFinals(finalSeen, segs, "user")
            /\ lastStream' = "user"
            /\ pendingReplay' = pendingReplay \ {"user"}
            /\ memoTime' = MemoTimeAfter(r[1] # messages, segs, agentTranscriptions)
            /\ delivered' = [delivered EXCEPT !["user"] = seg]
            /\ prevInterim' = [prevInterim EXCEPT
                                 !["user"] = CurrentInterim(userTranscriptions)]
    /\ events' = events + 1
    /\ UNCHANGED <<agentTranscriptions, now>>
    /\ UNCHANGED <<svars, avars, rvars, pvars>>

\* A segment arrives on the agent stream; the "Process agent transcriptions"
\* effect runs over the updated list.
AgentSegmentsUpdate ==
    /\ events < MaxEvents
    /\ \E seg \in Segments :
         LET segs == MergeSegment(agentTranscriptions, seg)
             r == ProcessSegments(segs, "agent", messages, processedSegments, now)
         IN /\ agentTranscriptions' = segs
            /\ messages' = r[1]
            /\ processedSegments' = r[2]
            /\ finalSeen' = NoteFinals(finalSeen, segs, "agent")
            /\ lastStream' = "agent"
            /\ pendingReplay' = pendingReplay \ {"agent"}
            /\ memoTime' = MemoTimeAfter(r[1] # messages, userTranscriptions, segs)
            /\ delivered' = [delivered EXCEPT !["agent"] = seg]
            /\ prevInterim' = [prevInterim EXCEPT
                                 !["agent"] = CurrentInterim(agentTranscriptions)]
    /\ events' = events + 1
    /\ UNCHANGED <<userTranscriptions, now>>
    /\ UNCHANGED <<svars, avars, rvars, pvars>>

\* clearMessages() without processedSegments.current.clear().
ClearMessagesLogOnly ==
    /\ messages' = <<>>
    /\ finalSeen' = [k \in AllPrefixedIds |->
                       [finalSeen[k] EXCEPT !.cleared = (finalSeen[k].n > 0)]]
    /\ lastStream' = "none"
    /\ pendingReplay' = Roles
    /\ memoTime' = MemoTimeAfter(TRUE, userTranscriptions, agentTranscriptions)
    /\ UNCHANGED <<userTranscriptions, agentTranscriptions, now, events,
                   delivered, prevInterim, processedSegments>>
    /\ UNCHANGED <<svars, avars, rvars, pvars>>

\* clearMessages()
ClearMessages ==
    /\ messages' = <<>>
    /\ processedSegments' = {}
    /\ finalSeen' = [k \in AllPrefixedIds |->
                       [finalSeen[k] EXCEPT !.cleared = (finalSeen[k].n > 0)]]
    /\ lastStream' = "none"
    /\ pendingReplay' = Roles
    /\ memoTime' = MemoTimeAfter(TRUE, userTranscriptions, agentTranscriptions)
    /\ UNCHANGED <<userTranscriptions, agentTranscriptions, now, events,
                   delivered, prevInterim>>
    /\ UNCHANGED <<svars, avars, rvars, pvars>>

\* Time passes between two events.
Tick ==
    /\ now < MaxTime
    /\ now' = now + 1
    /\ UNCHANGED <<userTranscriptions, agentTranscriptions, messages,
                   processedSegments, events, finalSeen, memoTime, delivered,
                   prevInterim, pendingReplay>>
    /\ lastStream' = "none"
    /\ UNCHANGED <<svars, avars, rvars, pvars>>

\* The wall clock behind Date.now() is set back between two events.
ClockSetBack ==
    /\ now > 0
    /\ now' \in 0..(now - 1)
    /\ UNCHANGED <<userTranscriptions, agentTranscriptions, messages,
                   processedSegments, events, finalSeen, memoTime, delivered,
                   prevInterim, pendingReplay>>
    /\ lastStream' = "none"
    /\ UNCHANGED <<svars, avars, rvars, pvars>>

NextTranscript ==
    \/ UserSegmentsUpdate
    \/ AgentSegmentsUpdate
    \/ ClearMessages
    \/ Tick
    \/ ClockSetBack

SpecTranscript == InitTranscript /\ [][NextTranscript]_vars

CountId(log, id) == Cardinality({ i \in 1..Len(log) : log[i].id = id })

(***************************************************************************)
(* C1 -- idempotent finalization.                                          *)
(***************************************************************************)
\* C1 (as stated): whenever a final segment with some id has been delivered
\* more than once on a stream, the finalized log holds exactly one message
\* with the stream-prefixed id.
C1_ExactlyOneMessage ==
    \A k \in AllPrefixedIds :
        finalSeen[k].n >= 2 => CountId(messages, k) = 1

\* C1 (amended): the finalized log never holds more than one message with a
\* given stream-prefixed id; and when a final segment with that id has been
\* delivered more than once, its first final delivery had non-blank text and
\* clearMessages() has not been called since, it holds exactly one.
C1_IdempotentFinalization ==
    \A k \in AllPrefixedIds :
        /\ CountId(messages, k) <= 1
        /\ (finalSeen[k].n >= 2 /\ finalSeen[k].firstNonBlank
               /\ ~finalSeen[k].cleared)
             => CountId(messages, k) = 1

\* A final segment with non-blank text was delivered twice and is in the log
\* once.
C1_Witness ==
    \E k \in AllPrefixedIds :
        /\ finalSeen[k].n >= 2
        /\ finalSeen[k].firstNonBlank
        /\ ~finalSeen[k].cleared
        /\ CountId(messages, k) = 1

\* The step delivers segment delivered'[r] on stream r.
DeliveryOn(r) == events' = events + 1 /\ lastStream' = r

RoomOf(c) == IF hook = HookRoom THEN c ELSE 1

\* The session state a caller reads off the hook's state.
ConnState(st) ==
    IF st.isConnected THEN "connected"
    ELSE IF st.isConnecting THEN "connecting" ELSE "disconnected"

\* setState(prev => ({ ...prev, isConnecting: true, error: null }))
ConnectStart(st) == [st EXCEPT !.isConnecting = TRUE, !.error = NULL]

\* RoomEvent.Connected handler
OnConnected(st) ==
    IF hook = HookRoom
    THEN [st EXCEPT !.isConnected = TRUE, !.isConnecting = FALSE,
                    !.roomName = "voice-assistant"]
    ELSE [st EXCEPT !.isConnected = TRUE, !.isConnecting = FALSE]

\* RoomEvent.Disconnected handler
OnDisconnected(st) ==
    IF hook = HookRoom
    THEN [st EXCEPT !.isConnected = FALSE, !.isMicEnabled = FALSE,
                    !.roomName = NULL]
    ELSE [st EXCEPT !.isConnected = FALSE, !.isConnecting = FALSE,
                    !.error = NULL]

\* catch (err) { setState(prev => ({ ...prev, isConnecting: false, error: err.message })) }
CatchState(st, msg) == [st EXCEPT !.isConnecting = FALSE, !.error = msg]

\* A disconnect() that returns early when there is no room to tear down.
DisconnectStateSkipWithoutRoom(st, hasRoom) ==
    IF hasRoom THEN InitialLkState ELSE st

\* The setState({...}) that ends disconnect()
DisconnectState(st, hasRoom) == InitialLkState

\* room.disconnect(): the Room object afterwards
RoomDisconnect(rs, r) ==
    [rs EXCEPT ![r] = [@ EXCEPT !.state = "disconnected", !.mic = FALSE]]

\* The state after the Disconnected event of Room r, if r.disconnect() emits one
AfterRoomDisconnect(st, rs, r) ==
    IF rs[r].state # "disconnected" THEN OnDisconnected(st) ELSE st

\* connect() invocations whose await of room.connect() on Room r is pending
Awaiting(r) == { c \in CallIds : calls[c] = "transport" /\ RoomOf(c) = r }

\* A connect() that asks for the microphone without awaiting room.connect().
MicRequestReadyNoAwait(c) ==
    calls[c] = "transport"

\* The continuation of `await room.connect(url, token)` can run.
MicRequestReady(c) ==
    calls[c] = "transport" /\ rooms[RoomOf(c)].state = "connected"

\* No continuation of a resolved promise is waiting to run: handlers of user
\* actions and of transport events run only then.
Quiescent == \A c \in CallIds : ~MicRequestReady(c) /\ calls[c] # "rejected"

Log(op) ==
    /\ lastOp' = op
    /\ discAfter' = IF op = "disconnect" THEN lastOp ELSE "none"
    /\ hungUp' = IF op = "disconnect" THEN TRUE
                 ELSE IF op = "connect" THEN FALSE ELSE hungUp

\* RoomEvent.TrackSubscribed handler: an audio track gets a new element, which
\* is appended to document.body; other kinds get none.
BodyAfterSubscribed(b, r, t) ==
    IF KindOf(t) = "audio" THEN b \cup {<<r, t>>} ELSE b

\* A TrackUnsubscribed handler that detaches the elements and leaves them in
\* the document.
BodyAfterUnsubscribedDetachOnly(b, r, t) == b

\* RoomEvent.TrackUnsubscribed handler: track.detach().forEach(el => el.remove())
BodyAfterUnsubscribed(b, r, t) == b \ {<<r, t>>}

\* Room r leaves the connected state: it unsubscribes every remote track, and
\* emits TrackUnsubscribed for each, before it emits Disconnected.
UnsubscribeAll(r) ==
    /\ subscribed' = [subscribed EXCEPT ![r] = {}]
    /\ body' = IF hook = HookRoom
               THEN { e \in body :
                        \A t \in subscribed[r] : e \in BodyAfterUnsubscribed(body, r, t) }
               ELSE body
    /\ lastRemoved' = body \ body'

\* The session states passed through so far, while the run is an undisturbed
\* first connect().
TraceStep(st) ==
    IF trace = <<>> THEN <<>>
    ELSE IF ConnState(st) # trace[Len(trace)] THEN Append(trace, ConnState(st))
    ELSE trace

\* connect(), up to the await of fetch()
Connect ==
    /\ Quiescent
    /\ nCalls < MaxCalls
    /\ nCalls' = nCalls + 1
    /\ calls' = [calls EXCEPT ![nCalls + 1] = "fetch"]
    /\ lkState' = ConnectStart(lkState)
    /\ trace' = IF nCalls = 0 THEN TraceStep(lkState') ELSE <<>>
    /\ Log("connect")
    /\ UNCHANGED <<tvars, avars, rvars, pvars, trkvars>>
    /\ UNCHANGED <<hook, room, rooms, connectionInfo, toggle, attrWrites, micIssued>>

\* fetch() rejects or response.json() throws
FetchFailed(c) ==
    /\ Quiescent
    /\ calls[c] = "fetch"
    /\ calls' = [calls EXCEPT ![c] = "failed"]
    /\ lkState' = CatchState(lkState, "fetch failed")
    /\ trace' = <<>>
    /\ Log("fetchFailed")
    /\ UNCHANGED <<tvars, avars, rvars, pvars, trkvars>>
    /\ UNCHANGED <<hook, room, rooms, connectionInfo, nCalls, toggle, attrWrites,
                   micIssued>>

\* the token endpoint answers { error }: throw new Error(data.error)
FetchError(c) ==
    /\ Quiescent
    /\ calls[c] = "fetch"
    /\ calls' = [calls EXCEPT ![c] = "failed"]
    /\ lkState' = CatchState(lkState, "limit_reached")
    /\ trace' = <<>>
    /\ Log("fetchError")
    /\ UNCHANGED <<tvars, avars, rvars, pvars, trkvars>>
    /\ UNCHANGED <<hook, room, rooms, connectionInfo, nCalls, toggle, attrWrites,
                   micIssued>>

\* room.connect(url, token) as the Room sees it: a disconnected Room starts
\* connecting with these credentials; a Room that is connecting or connected
\* hands back its pending / settled connect.
RoomConnectCall(rs, r, ok) ==
    IF rs[r].state = "disconnected"
    THEN [rs EXCEPT ![r] = [state |-> "connecting", mic |-> FALSE, credsOk |-> ok]]
    ELSE rs

\* the token endpoint answers without an error field (ok: url and token are
\* present; ~ok: they are missing); connect() goes on to room.connect()
FetchOk(c, ok) ==
    /\ Quiescent
    /\ calls[c] = "fetch"
    /\ calls' = [calls EXCEPT ![c] = "transport"]
    /\ rooms' = RoomConnectCall(rooms, RoomOf(c), ok)
    /\ connectionInfo' = IF hook = HookConn
                         THEN (IF ok THEN "info" ELSE "malformed")
                         ELSE connectionInfo
    /\ trace' = IF ok THEN trace ELSE <<>>
    /\ Log("fetchOk")
    /\ UNCHANGED <<tvars, avars, rvars, pvars, trkvars>>
    /\ UNCHANGED <<hook, lkState, room, nCalls, toggle, attrWrites, micIssued>>

\* The transport handshake of Room r succeeds: the Room emits Connected.
RoomConnected(r) ==
    /\ Quiescent
    /\ rooms[r].state = "connecting"
    /\ rooms[r].credsOk
    /\ rooms' = [rooms EXCEPT ![r].state = "connected"]
    /\ lkState' = OnConnected(lkState)
    /\ trace' = TraceStep(lkState')
    /\ Log("roomConnected")
    /\ UNCHANGED <<tvars, avars, rvars, pvars, trkvars>>
    /\ UNCHANGED <<hook, room, connectionInfo, calls, nCalls, toggle, attrWrites,
                   micIssued>>

\* The transport handshake of Room r fails: the Room emits Disconnected and
\* rejects room.connect() for every connect() awaiting it.
RoomConnectFailed(r) ==
    /\ Quiescent
    /\ rooms[r].state = "connecting"
    /\ rooms' = RoomDisconnect(rooms, r)
    /\ calls' = [c \in CallIds |-> IF c \in Awaiting(r) THEN "rejected" ELSE calls[c]]
    /\ lkState' = OnDisconnected(lkState)
    /\ trace' = <<>>
    /\ Log("roomConnectFailed")
    /\ UnsubscribeAll(r)
    /\ UNCHANGED <<tvars, avars, rvars, pvars>>
    /\ UNCHANGED <<hook, room, connectionInfo, nCalls, toggle, attrWrites, micIssued>>

\* connect() resumes in its catch block after room.connect() was rejected
ConnectCatch(c) ==
    /\ calls[c] = "rejected"
    /\ calls' = [calls EXCEPT ![c] = "failed"]
    /\ lkState' = CatchState(lkState, "connect failed")
    /\ trace' = <<>>
    /\ Log("connectCatch")
    /\ UNCHANGED <<tvars, avars, rvars, pvars, trkvars>>
    /\ UNCHANGED <<hook, room, rooms, connectionInfo, nCalls, toggle, attrWrites,
                   micIssued>>

\* connect() resumes after `await room.connect()`: useLiveKitRoom stores the
\* Room (setRoom; the [room] effect cleanup disconnects the Room stored
\* before); both hooks then call setMicrophoneEnabled(true).
ConnectResume(c) ==
    /\ MicRequestReady(c)
    /\ calls' = [calls EXCEPT ![c] = "mic"]
    /\ micIssued' = micIssued \cup {rooms[RoomOf(c)].state}
    /\ IF hook = HookRoom
       THEN /\ room' = c
            /\ IF room \notin {0, c}
               THEN /\ rooms' = RoomDisconnect(rooms, room)
                    /\ lkState' = AfterRoomDisconnect(lkState, rooms, room)
                    /\ UnsubscribeAll(room)
               ELSE UNCHANGED <<rooms, lkState, trkvars>>
       ELSE UNCHANGED <<room, rooms, lkState, trkvars>>
    /\ trace' = IF lkState' = lkState THEN trace ELSE <<>>
    /\ Log("connectResume")
    /\ UNCHANGED <<tvars, avars, rvars, pvars>>
    /\ UNCHANGED <<hook, connectionInfo, nCalls, toggle, attrWrites>>

\* setMicrophoneEnabled(true) resolves; connect() returns
MicResolved(c) ==
    /\ Quiescent
    /\ calls[c] = "mic"
    /\ calls' = [calls EXCEPT ![c] = "done"]
    /\ rooms' = IF rooms[RoomOf(c)].state = "connected"
                THEN [rooms EXCEPT ![RoomOf(c)].mic = TRUE] ELSE rooms
    /\ lkState' = IF hook = HookRoom
                  THEN [lkState EXCEPT !.isMicEnabled = TRUE] ELSE lkState
    /\ trace' = trace
    /\ Log("micResolved")
    /\ UNCHANGED <<tvars, avars, rvars, pvars, trkvars>>
    /\ UNCHANGED <<hook, room, connectionInfo, nCalls, toggle, attrWrites, micIssued>>

\* setMicrophoneEnabled(true) rejects; the catch block runs
MicRejected(c) ==
    /\ Quiescent
    /\ calls[c] = "mic"
    /\ calls' = [calls EXCEPT ![c] = "failed"]
    /\ lkState' = CatchState(lkState, "mic failed")
    /\ trace' = <<>>
    /\ Log("micRejected")
    /\ UNCHANGED <<tvars, avars, rvars, pvars, trkvars>>
    /\ UNCHANGED <<hook, room, rooms, connectionInfo, nCalls, toggle, attrWrites,
                   micIssued>>

\* The transport drops a connected Room: the Room emits Disconnected.
TransportDrop(r) ==
    /\ Quiescent
    /\ rooms[r].state = "connected"
    /\ rooms' = RoomDisconnect(rooms, r)
    /\ lkState' = OnDisconnected(lkState)
    /\ trace' = <<>>
    /\ Log("transportDrop")
    /\ UnsubscribeAll(r)
    /\ UNCHANGED <<tvars, avars, rvars, pvars>>
    /\ UNCHANGED <<hook, room, connectionInfo, calls, nCalls, toggle, attrWrites,
                   micIssued>>

\* disconnect()
Disconnect ==
    /\ Quiescent
    /\ IF hook = HookRoom
       THEN /\ rooms' = IF room # 0 THEN RoomDisconnect(rooms, room) ELSE rooms
            /\ room' = 0
            /\ lkState' = DisconnectState(
                             IF room # 0 THEN AfterRoomDisconnect(lkState, rooms, room)
                                         ELSE lkState,
                             room # 0)
            /\ UNCHANGED <<connectionInfo, calls>>
       ELSE /\ rooms' = RoomDisconnect(rooms, room)
            /\ connectionInfo' = NULL
            \* a connect() awaiting a Room that was still connecting is rejected
            /\ calls' = [c \in CallIds |->
                           IF c \in Awaiting(room) THEN "rejected" ELSE calls[c]]
            /\ lkState' =
                 DisconnectState(AfterRoomDisconnect(lkState, rooms, room), TRUE)
            /\ UNCHANGED room
    /\ trace' = <<>>
    /\ Log("disconnect")
    /\ IF room # 0 THEN UnsubscribeAll(room) ELSE UNCHANGED trkvars
    /\ UNCHANGED <<tvars, avars, rvars, pvars>>
    /\ UNCHANGED <<hook, nCalls, toggle, attrWrites, micIssued>>

\* useLiveKitRoom.toggleMic(), up to the await of setMicrophoneEnabled
ToggleMic ==
    /\ Quiescent
    /\ hook = HookRoom
    /\ ~toggle.active
    /\ toggle' = IF room # 0
                 THEN [active |-> TRUE, room |-> room,
                       newState |-> ~lkState.isMicEnabled]
                 ELSE NoToggle
    /\ trace' = <<>>
    /\ Log("toggleMic")
    /\ UNCHANGED <<tvars, avars, rvars, pvars, trkvars>>
    /\ UNCHANGED <<hook, lkState, room, rooms, connectionInfo, calls, nCalls,
                   attrWrites, micIssued>>

\* setMicrophoneEnabled(newState) of toggleMic() resolves
ToggleResolved ==
    /\ Quiescent
    /\ toggle.active
    /\ rooms' = IF rooms[toggle.room].state = "connected"
                THEN [rooms EXCEPT ![toggle.room].mic = toggle.newState] ELSE rooms
    /\ lkState' = [lkState EXCEPT !.isMicEnabled = toggle.newState]
    /\ toggle' = NoToggle
    /\ trace' = <<>>
    /\ Log("toggleResolved")
    /\ UNCHANGED <<tvars, avars, rvars, pvars, trkvars>>
    /\ UNCHANGED <<hook, room, connectionInfo, calls, nCalls, attrWrites, micIssued>>

\* setMicrophoneEnabled(newState) of toggleMic() rejects
ToggleRejected ==
    /\ Quiescent
    /\ toggle.active
    /\ toggle' = NoToggle
    /\ trace' = <<>>
    /\ Log("toggleRejected")
    /\ UNCHANGED <<tvars, avars, rvars, pvars, trkvars>>
    /\ UNCHANGED <<hook, lkState, room, rooms, connectionInfo, calls, nCalls,
                   attrWrites, micIssued>>

\* The guard of setTtsVoice(): useLiveKitRoom tests `room`,
\* useLiveKitConnection tests room.state === ConnectionState.Connected.
SetTtsVoiceWrites ==
    IF hook = HookRoom THEN room # 0 ELSE rooms[room].state = "connected"

\* setTtsVoice(voice)
SetTtsVoice ==
    /\ Quiescent
    /\ attrWrites' = IF SetTtsVoiceWrites
                     THEN attrWrites \cup {rooms[room].state} ELSE attrWrites
    /\ Log("setTtsVoice")
    /\ UNCHANGED <<tvars, avars, rvars, pvars, trkvars>>
    /\ UNCHANGED <<hook, lkState, room, rooms, connectionInfo, calls, nCalls, toggle,
                   micIssued, trace>>

InitSession ==
    /\ TranscriptInit /\ AppInit /\ RecorderInit(TRUE)
    /\ PlayerInit("ok", "suspended")
    /\ (SessionInit(HookRoom) \/ SessionInit(HookConn))

NextSession ==
    \/ Connect
    \/ \E c \in CallIds : FetchFailed(c)
    \/ \E c \in CallIds : FetchError(c)
    \/ \E c \in CallIds, ok \in BOOLEAN : FetchOk(c, ok)
    \/ \E r \in RoomIds : RoomConnected(r)
    \/ \E r \in RoomIds : RoomConnectFailed(r)
    \/ \E c \in CallIds : ConnectCatch(c)
    \/ \E c \in CallIds : ConnectResume(c)
    \/ \E c \in CallIds : MicResolved(c)
    \/ \E c \in CallIds : MicRejected(c)
    \/ \E r \in RoomIds : TransportDrop(r)
    \/ Disconnect
    \/ ToggleMic
    \/ ToggleResolved
    \/ ToggleRejected
    \/ SetTtsVoice

SpecSession == InitSession /\ [][NextSession]_vars

\* Every pending request settles: the token fetch, the transport handshake
\* and the microphone request each resolve or reject, and a continuation
\* that can run does run.
FairSession ==
    /\ \A c \in CallIds :
          /\ WF_vars(FetchFailed(c) \/ FetchError(c) \/ \E ok \in BOOLEAN : FetchOk(c, ok))
          /\ WF_vars(ConnectCatch(c))
          /\ WF_vars(ConnectResume(c))
          /\ WF_vars(MicResolved(c) \/ MicRejected(c))
    /\ \A r \in RoomIds : WF_vars(RoomConnected(r) \/ RoomConnectFailed(r))

SpecSessionFair == SpecSession /\ FairSession

\* C34: whenever isConnecting is true it eventually becomes false.
C34_ConnectingAlwaysResolves ==
    lkState.isConnecting ~> ~lkState.isConnecting

\* C35: once disconnect() has been called and no connect() has been called
\* since, no Room is connected and the session is neither connected nor
\* microphone-enabled, whatever the connect() calls still suspended do.
C35_HangUpDuringConnect ==
    hungUp =>
        /\ \A r \in RoomIds : rooms[r].state # "connected"
        /\ ~lkState.isConnected
        /\ ~lkState.isMicEnabled

\* C32: isConnecting and isConnected are never both true, in either hook.
C32_FlagsMutuallyConsistent ==
    ~(lkState.isConnecting /\ lkState.isConnected)

\* C33: in useLiveKitRoom, isMicEnabled true implies isConnected true.
C33_MicImpliesConnected ==
    hook = HookRoom => (lkState.isMicEnabled => lkState.isConnected)

(***************************************************************************)
(* useLiveKitRoom with a remote participant that publishes tracks          *)
(***************************************************************************)
\* The Room r subscribes to remote track t and emits TrackSubscribed
TrackSubscribed(r, t) ==
    /\ Quiescent
    /\ hook = HookRoom
    /\ rooms[r].state = "connected"
    /\ t \notin subscribed[r]
    /\ subscribed' = [subscribed EXCEPT ![r] = @ \cup {t}]
    /\ body' = BodyAfterSubscribed(body, r, t)
    /\ lastRemoved' = {}
    /\ Log("trackSubscribed")
    /\ UNCHANGED <<tvars, avars, rvars, pvars>>
    /\ UNCHANGED <<hook, lkState, room, rooms, connectionInfo, calls, nCalls, toggle,
                   attrWrites, micIssued, trace>>

\* The remote participant unpublishes track t, or leaves: the Room r emits
\* TrackUnsubscribed
TrackUnsubscribed(r, t) ==
    /\ Quiescent
    /\ hook = HookRoom
    /\ rooms[r].state = "connected"
    /\ t \in subscribed[r]
    /\ subscribed' = [subscribed EXCEPT ![r] = @ \ {t}]
    /\ body' = BodyAfterUnsubscribed(body, r, t)
    /\ lastRemoved' = body \ body'
    /\ Log("trackUnsubscribed")
    /\ UNCHANGED <<tvars, avars, rvars, pvars>>
    /\ UNCHANGED <<hook, lkState, room, rooms, connectionInfo, calls, nCalls, toggle,
                   attrWrites, micIssued, trace>>

InitTracks ==
    /\ TranscriptInit /\ AppInit /\ RecorderInit(TRUE)
    /\ PlayerInit("ok", "suspended")
    /\ SessionInit(HookRoom)

NextTracks ==
    \/ Connect
    \/ \E c \in CallIds : FetchOk(c, TRUE)
    \/ \E r \in RoomIds : RoomConnected(r)
    \/ \E r \in RoomIds : RoomConnectFailed(r)
    \/ \E c \in CallIds : ConnectCatch(c)
    \/ \E c \in CallIds : ConnectResume(c)
    \/ \E c \in CallIds : MicResolved(c)
    \/ \E r \in RoomIds : TransportDrop(r)
    \/ Disconnect
    \/ \E r \in RoomIds, t \in RemoteTracks : TrackSubscribed(r, t)
    \/ \E r \in RoomIds, t \in RemoteTracks : TrackUnsubscribed(r, t)

SpecTracks == InitTracks /\ [][NextTracks]_vars

\* C22: every playback element in the document belongs to a remote track that
\* its Room still subscribes, after any sequence of subscribe, unsubscribe,
\* disconnect and transport events; the element of a track is removed by the
\* handler of that track's unsubscription.
C22_NoOrphanElement ==
    \A e \in body : e[2] \in subscribed[e[1]]

\* A track was unsubscribed while another audio track of the same Room stayed
\* subscribed: exactly the element of the unsubscribed track was removed.
C22_Witness ==
    /\ lastOp = "trackUnsubscribed"
    /\ lastRemoved = {<<1, "audio1">>}
    /\ body = {<<1, "audio2">>}
    /\ subscribed[1] = {"audio2", "video1"}

(***************************************************************************)
(* C2 -- single live session.                                              *)
(***************************************************************************)
LiveRooms == { r \in RoomIds : rooms[r].state = "connected" }

\* C2: at no reachable state do two transport sessions (Rooms that have been
\* connected and not disconnected) exist at once.
C2_SingleLiveSession == Cardinality(LiveRooms) <= 1

(***************************************************************************)
(* C3 -- successful connect().                                             *)
(***************************************************************************)
IsPrefix(a, b) == Len(a) <= Len(b) /\ SubSeq(b, 1, Len(a)) = a

\* C3: an undisturbed first connect() whose token fetch, transport connect
\* and microphone enabling all succeed passes through disconnected,
\* connecting, connected in that order and ends connected with the microphone
\* enabled; connect() asks for the microphone only once the Room is connected.
C3_SuccessfulConnect ==
    /\ micIssued \subseteq {"connected"}
    /\ trace # <<>> =>
         IsPrefix(trace, <<"disconnected", "connecting", "connected">>)
    /\ (trace # <<>> /\ calls[1] = "done") =>
         /\ trace = <<"disconnected", "connecting", "connected">>
         /\ lkState.isConnected
         /\ ~lkState.isConnecting
         /\ lkState.error = NULL
         /\ rooms[RoomOf(1)].mic
         /\ hook = HookRoom => lkState.isMicEnabled

\* useLiveKitRoom has completed an undisturbed successful connect().
C3_Witness ==
    /\ hook = HookRoom
    /\ trace = <<"disconnected", "connecting", "connected">>
    /\ calls[1] = "done"
    /\ lkState.isMicEnabled

(***************************************************************************)
(* C4 -- connect failure semantics.                                        *)
(***************************************************************************)
\* C4: when the credential fetch fails, or the transport connect fails (which
\* is what a malformed credential response leads to), connect() ends with
\* isConnected = false, isConnecting = false and a non-null error.
C4_FailureLeavesDisconnected ==
    lastOp \in {"fetchFailed", "fetchError", "connectCatch"} =>
        /\ ~lkState.isConnected
        /\ ~lkState.isConnecting
        /\ lkState.error # NULL

(***************************************************************************)
(* C5 -- no half-initialized session.                                      *)
(***************************************************************************)
\* C5: when the transport is connected and enabling the microphone then
\* fails, connect() does not end in the state "connected with microphone
\* disabled".
C5_NoHalfInitializedSession ==
    lastOp = "micRejected" =>
        ~(lkState.isConnected /\ \E r \in LiveRooms : ~rooms[r].mic)

(***************************************************************************)
(* C8 -- disconnect safety.                                                *)
(***************************************************************************)
\* C8: whenever disconnect() has just returned -- called when never
\* connected, twice in a row, after the transport signalled disconnection, or
\* in any other state -- the session state is disconnected: isConnected and
\* isConnecting false, microphone flag false, error null, and the hook's Room
\* is not connected.
C8_DisconnectSafety ==
    lastOp = "disconnect" =>
        /\ lkState = InitialLkState
        /\ hook = HookRoom => room = 0
        /\ hook = HookConn => rooms[room].state = "disconnected"

\* disconnect() was called after a failed connect(), and then once more.
C8_Witness ==
    /\ lastOp = "disconnect"
    /\ discAfter = "disconnect"
    /\ \E c \in CallIds : calls[c] = "failed"

(***************************************************************************)
(* C9 -- attribute propagation only while connected.                       *)
(***************************************************************************)
\* C9: setAttributes is issued only while the transport connection state of
\* the Room is connected.
C9_WritesOnlyWhileConnected == attrWrites \subseteq {"connected"}


(***************************************************************************)
(* App, <LiveKitRoom> and RoomHandler (src/unnamed/part_002).              *)
(*                                                                         *)
(* A React state setter takes effect with the handler that calls it; the   *)
(* render that follows, with the mount or unmount of <LiveKitRoom> it      *)
(* causes and the effects of RoomHandler it triggers, is part of the same  *)
(* step.  <LiveKitRoom> owns one Room per mount, connects it when mounted, *)
(* disconnects it and detaches its listeners when unmounted.               *)
(***************************************************************************)

\* JavaScript truthiness of a stored token or url: null and a field missing
\* from the response (undefined) are falsy.
Truthy(x) == x \notin {NULL, "undefined"}

\* const isLiveKitConnected = liveKitToken && liveKitUrl
IsLiveKitConnected(tok, url) == Truthy(tok) /\ Truthy(url)

\* The render gate of <LiveKitRoom>: (isLiveKitConnected && !isLimitReached)
Mounted(tok, url, lim) == IsLiveKitConnected(tok, url) /\ ~lim

IsMounted == Mounted(liveKitToken, liveKitUrl, isLimitReached)

\* useRef(ttsVoice), useRef(agentPrompt), useRef(businessDetails)
RefsOf(v, p, b) == [voice |-> v, prompt |-> p, business |-> b]

\* What RoomHandler holds: its refs, the attributes last written on the
\* Room, and the history of redundant writes.
HandlerState == [refs |-> lastRefs, remote |-> remoteAttrs, redundant |-> redundantKeys]

\* room.localParticipant.setAttributes(kv): each key of kv takes its value; a
\* key whose value equals the value last written for it is a redundant write.
SetAttributes(hs, kv) ==
    [hs EXCEPT
        !.remote = [k \in AttrKeys |-> IF k \in DOMAIN kv THEN kv[k] ELSE hs.remote[k]],
        !.redundant = hs.redundant \cup {k \in DOMAIN kv : hs.remote[k] = kv[k]}]

\* Effect "Initial Setup", dependency [room.state].
InitialSetup(hs, rs, v, p, b) ==
    IF rs = "connected"
    THEN SetAttributes(hs, [k \in AttrKeys |->
             CASE k = "tts_voice" -> v
               [] k = "agent_prompt" -> p
               [] OTHER -> b])
    ELSE hs

\* The voice effect without its write.
VoiceEffectNoWrite(hs, rs, v) == hs

\* Effect "Watch for Voice changes", dependencies [ttsVoice, room.state].
VoiceEffect(hs, rs, v) ==
    IF rs = "connected" /\ v # hs.refs.voice
    THEN [SetAttributes(hs, [k \in {"tts_voice"} |-> v]) EXCEPT !.refs.voice = v]
    ELSE hs

\* Effect "Watch for Prompt/Business changes", dependencies
\* [agentPrompt, businessDetails, room.state]: both keys are written when
\* either differs from its ref.
PromptEffect(hs, rs, p, b) ==
    IF rs = "connected" /\ (p # hs.refs.prompt \/ b # hs.refs.business)
    THEN [SetAttributes(hs, [k \in {"agent_prompt", "business_details"} |->
              IF k = "agent_prompt" THEN p ELSE b])
          EXCEPT !.refs.prompt = p, !.refs.business = b]
    ELSE hs

\* The effects of RoomHandler a render runs, in declaration order; deps is
\* the set of dependencies that changed.
RunEffects(hs, rs, v, p, b, deps) ==
    LET h1 == IF "state" \in deps THEN InitialSetup(hs, rs, v, p, b) ELSE hs
        h2 == IF deps \cap {"state", "voice"} # {} THEN VoiceEffect(h1, rs, v) ELSE h1
    IN  IF deps \cap {"state", "prompt", "business"} # {}
        THEN PromptEffect(h2, rs, p, b)
        ELSE h2

SetHandler(hs) ==
    /\ lastRefs' = hs.refs
    /\ remoteAttrs' = hs.remote
    /\ redundantKeys' = hs.redundant

\* The render after App state became (tok, url, lim): <LiveKitRoom> is
\* mounted (a new Room starts connecting, RoomHandler's refs take the
\* current props), unmounted (its Room is disconnected), or left alone.
usvars == <<usageProcessed, usageIssued, usageRepeated, usageFinals,
            usageRedelivered>>
stvars == <<storedVoice, storedAtStartup, startupVoice>>

Render(tok, url, lim) ==
    IF Mounted(tok, url, lim) /\ ~IsMounted
    THEN /\ roomState' = "connecting"
         /\ lastRefs' = RefsOf(ttsVoice, agentPrompt, businessDetails)
         /\ remoteAttrs' = NoAttrs
         /\ usageProcessed' = {}
         /\ usageIssued' = {}
         /\ usageRepeated' = {}
         /\ usageFinals' = {}
         /\ usageRedelivered' = FALSE
         /\ UNCHANGED redundantKeys
    ELSE IF IsMounted /\ ~Mounted(tok, url, lim)
    THEN /\ roomState' = "disconnected"
         /\ lastRefs' = NoRefs
         /\ remoteAttrs' = NoAttrs
         /\ usageProcessed' = {}
         /\ usageIssued' = {}
         /\ usageRepeated' = {}
         /\ usageFinals' = {}
         /\ usageRedelivered' = FALSE
         /\ UNCHANGED redundantKeys
    ELSE UNCHANGED <<roomState, lastRefs, remoteAttrs, redundantKeys, usvars>>

\* The App state written by a handler, followed by the render.
AppState(tok, url, mic, ast, lim) ==
    /\ liveKitToken' = tok
    /\ liveKitUrl' = url
    /\ isMicActive' = mic
    /\ assistantState' = ast
    /\ isLimitReached' = lim
    /\ Render(tok, url, lim)

props == <<ttsVoice, agentPrompt, businessDetails>>

tokvars == <<toggles, nToggles, isConnecting>>
usagevars == <<usageCheck, pendingIncr>>

\* The value of isLimitReached after toggleMic has read data.error without
\* taking the limit_reached branch.
LimitAfterTokenErrorIgnored(lim, err) == lim

\* The value of isLimitReached after toggleMic has read data.error:
\* limit_reached raises the flag.
LimitAfterTokenError(lim, err) == lim \/ err = "limit_reached"

\* checkUsage() resolves: data.limited raises the flag and nothing else.
CheckUsageResolved(limited) ==
    /\ usageCheck = "pending"
    /\ usageCheck' = "done"
    /\ AppState(liveKitToken, liveKitUrl, isMicActive, assistantState,
                isLimitReached \/ limited)
    /\ UNCHANGED <<pendingIncr, tokvars, props, stvars, tvars, svars, rvars, pvars>>

\* checkUsage(): fetch or json() throws, the catch logs.
CheckUsageFailed ==
    /\ usageCheck = "pending"
    /\ usageCheck' = "done"
    /\ UNCHANGED <<pendingIncr, tokvars, props, stvars, tvars, svars, rvars, pvars>>
    /\ UNCHANGED <<isLimitReached, liveKitToken, liveKitUrl, isMicActive,
                   assistantState, roomState, lastRefs, remoteAttrs, redundantKeys,
                   usvars>>

\* toggleMic(): returns when the limit is reached; with a token stored it
\* drops the session; otherwise it sets isConnecting and requests a token.
AppToggleMic ==
    IF isLimitReached
    THEN UNCHANGED vars
    ELSE IF Truthy(liveKitToken)
    THEN /\ AppState(NULL, NULL, FALSE, "IDLE", isLimitReached)
         /\ UNCHANGED <<tokvars, usagevars, props, stvars, tvars, svars, rvars, pvars>>
    ELSE /\ nToggles < MaxToggles
         /\ nToggles' = nToggles + 1
         /\ toggles' = [toggles EXCEPT ![nToggles + 1] = "fetch"]
         /\ isConnecting' = TRUE
         /\ AppState(liveKitToken, liveKitUrl, isMicActive, assistantState,
                     isLimitReached)
         /\ UNCHANGED <<usagevars, props, stvars, tvars, svars, rvars, pvars>>

\* toggleMic() resumes with a response without error: url and token are
\* stored as received (a missing field is stored as undefined), isMicActive
\* and LISTENING are set, finally clears isConnecting.
TokenOk(t, hasToken, hasUrl) ==
    /\ toggles[t] = "fetch"
    /\ toggles' = [toggles EXCEPT ![t] = "stored"]
    /\ isConnecting' = FALSE
    /\ AppState(IF hasToken THEN "token" ELSE "undefined",
                IF hasUrl THEN "url" ELSE "undefined",
                TRUE, "LISTENING", isLimitReached)
    /\ UNCHANGED <<nToggles, usagevars, props, stvars, tvars, svars, rvars, pvars>>

\* toggleMic() resumes with {error: "limit_reached"}: the flag is raised and
\* the function returns through finally.
TokenLimit(t) ==
    /\ toggles[t] = "fetch"
    /\ toggles' = [toggles EXCEPT ![t] = "limit"]
    /\ isConnecting' = FALSE
    /\ AppState(liveKitToken, liveKitUrl, isMicActive, assistantState,
                LimitAfterTokenError(isLimitReached, "limit_reached"))
    /\ UNCHANGED <<nToggles, usagevars, props, stvars, tvars, svars, rvars, pvars>>

\* toggleMic(): fetch or json() throws, or the response carries another
\* error: the catch logs, finally clears isConnecting.
TokenFailed(t) ==
    /\ toggles[t] = "fetch"
    /\ toggles' = [toggles EXCEPT ![t] = "failed"]
    /\ isConnecting' = FALSE
    /\ AppState(liveKitToken, liveKitUrl, isMicActive, assistantState,
                LimitAfterTokenError(isLimitReached, "other"))
    /\ UNCHANGED <<nToggles, usagevars, props, stvars, tvars, svars, rvars, pvars>>

\* The segments of an agentTranscriptions value, as the usage effect reads
\* them
UsageSegments == [id : SegIds, final : BOOLEAN]
AgentTranscriptionValues ==
    { <<a>> : a \in UsageSegments } \cup { <<a, b>> : a, b \in UsageSegments }

\* A usage effect that counts every final segment it is shown.
RECURSIVE UsageCallsIgnoringProcessed(_, _)
UsageCallsIgnoringProcessed(segs, processed) ==
    IF segs = <<>> THEN <<>>
    ELSE IF Head(segs).final
    THEN <<Head(segs).id>> \o UsageCallsIgnoringProcessed(Tail(segs), processed)
    ELSE UsageCallsIgnoringProcessed(Tail(segs), processed)

\* The ids for which agentTranscriptions.forEach calls onUsageIncrement(), in
\* order: a segment that is final and whose id is not in processedSegments;
\* the id is added to the set before the call.
RECURSIVE UsageCalls(_, _)
UsageCalls(segs, processed) ==
    IF segs = <<>> THEN <<>>
    ELSE IF Head(segs).final /\ Head(segs).id \notin processed
    THEN <<Head(segs).id>>
         \o UsageCalls(Tail(segs), processed \cup {Head(segs).id})
    ELSE UsageCalls(Tail(segs), processed)

\* useVoiceAssistant delivers a new agentTranscriptions value to the mounted
\* RoomHandler: the usage effect runs; each onUsageIncrement() call posts to
\* the increment endpoint.
AgentResponse(segs) ==
    /\ IsMounted
    /\ roomState = "connected"
    /\ LET called == UsageCalls(segs, usageProcessed)
           ids == { called[i] : i \in 1..Len(called) }
       IN /\ pendingIncr + Len(called) <= MaxIncr
          /\ pendingIncr' = pendingIncr + Len(called)
          /\ usageProcessed' = usageProcessed \cup ids
          /\ usageIssued' = usageIssued \cup ids
          /\ usageRepeated' =
               usageRepeated
               \cup (usageIssued \cap ids)
               \cup { id \in ids :
                        Cardinality({ i \in 1..Len(called) : called[i] = id }) > 1 }
    /\ usageFinals' =
         usageFinals \cup { segs[i].id : i \in { j \in 1..Len(segs) : segs[j].final } }
    /\ usageRedelivered' =
         (usageRedelivered
          \/ \E i \in 1..Len(segs) : segs[i].final /\ segs[i].id \in usageFinals)
    /\ UNCHANGED <<usageCheck, tokvars, props, stvars, tvars, svars, rvars, pvars>>
    /\ UNCHANGED <<isLimitReached, liveKitToken, liveKitUrl, isMicActive,
                   assistantState, roomState, lastRefs, remoteAttrs, redundantKeys>>

\* handleUsageIncrement() resolves: data.limited raises the flag and clears
\* token and url.
UsageIncrementResolved(limited) ==
    /\ pendingIncr > 0
    /\ pendingIncr' = pendingIncr - 1
    /\ IF limited
       THEN AppState(NULL, NULL, isMicActive, assistantState, TRUE)
       ELSE AppState(liveKitToken, liveKitUrl, isMicActive, assistantState,
                     isLimitReached)
    /\ UNCHANGED <<usageCheck, tokvars, props, stvars, tvars, svars, rvars, pvars>>

\* handleUsageIncrement(): fetch or json() throws, the catch logs.
UsageIncrementFailed ==
    /\ pendingIncr > 0
    /\ pendingIncr' = pendingIncr - 1
    /\ UNCHANGED <<usageCheck, tokvars, props, stvars, tvars, svars, rvars, pvars>>
    /\ UNCHANGED <<isLimitReached, liveKitToken, liveKitUrl, isMicActive,
                   assistantState, roomState, lastRefs, remoteAttrs, redundantKeys,
                   usvars>>

\* The Room of the mounted <LiveKitRoom> becomes connected (first connection
\* or a reconnection): onConnected runs handleConnected, and RoomHandler's
\* effects run for the change of room.state.
LkRoomConnected ==
    /\ IsMounted
    /\ roomState \in {"connecting", "reconnecting"}
    /\ roomState' = "connected"
    /\ isMicActive' = TRUE
    /\ assistantState' = "LISTENING"
    /\ SetHandler(RunEffects(HandlerState, "connected", ttsVoice, agentPrompt,
                             businessDetails, {"state"}))
    /\ UNCHANGED <<isLimitReached, liveKitToken, liveKitUrl, usvars>>
    /\ UNCHANGED <<tokvars, usagevars, props, stvars, tvars, svars, rvars, pvars>>

\* The connected Room loses its transport and starts to reconnect;
\* RoomHandler's effects run for the change of room.state.
LkRoomReconnecting ==
    /\ IsMounted
    /\ roomState = "connected"
    /\ roomState' = "reconnecting"
    /\ SetHandler(RunEffects(HandlerState, "reconnecting", ttsVoice, agentPrompt,
                             businessDetails, {"state"}))
    /\ UNCHANGED <<isLimitReached, liveKitToken, liveKitUrl, isMicActive,
                   assistantState, usvars>>
    /\ UNCHANGED <<tokvars, usagevars, props, stvars, tvars, svars, rvars, pvars>>

\* The Room of the mounted <LiveKitRoom> becomes disconnected (the connect
\* failed, the reconnection gave up, or the server closed the session):
\* onDisconnected runs handleDisconnected, which unmounts <LiveKitRoom>.
LkRoomDisconnected ==
    /\ IsMounted
    /\ roomState \in {"connecting", "connected", "reconnecting"}
    /\ AppState(NULL, NULL, FALSE, "IDLE", isLimitReached)
    /\ UNCHANGED <<tokvars, usagevars, props, stvars, tvars, svars, rvars, pvars>>

\* A settings change re-renders RoomHandler, when mounted, with the changed
\* prop.
ChangeProps(v, p, b, deps) ==
    /\ ttsVoice' = v
    /\ agentPrompt' = p
    /\ businessDetails' = b
    /\ IF IsMounted
       THEN SetHandler(RunEffects(HandlerState, roomState, v, p, b, deps))
       ELSE UNCHANGED <<lastRefs, remoteAttrs, redundantKeys>>
    /\ storedVoice' = IF v # ttsVoice THEN StoredAfterVoiceEffect(storedVoice, v)
                                      ELSE storedVoice
    /\ UNCHANGED <<isLimitReached, liveKitToken, liveKitUrl, isMicActive,
                   assistantState, roomState, usvars, storedAtStartup,
                   startupVoice>>
    /\ UNCHANGED <<tokvars, usagevars, tvars, svars, rvars, pvars>>

\* SettingsPanel onChangeTtsVoice={setTtsVoice}
ChangeTtsVoice(v) ==
    /\ v # ttsVoice
    /\ ChangeProps(v, agentPrompt, businessDetails, {"voice"})

\* SettingsPanel onChangeAgentPrompt={setAgentPrompt}
ChangeAgentPrompt(p) ==
    /\ p # agentPrompt
    /\ ChangeProps(ttsVoice, p, businessDetails, {"prompt"})

\* SettingsPanel onChangeBusinessDetails={setBusinessDetails}
ChangeBusinessDetails(b) ==
    /\ b # businessDetails
    /\ ChangeProps(ttsVoice, agentPrompt, b, {"business"})

InitApp ==
    TranscriptInit /\ SessionInit(HookRoom) /\ AppInit /\ RecorderInit(TRUE)
    /\ PlayerInit("ok", "suspended")

NextApp ==
    \/ \E limited \in BOOLEAN : CheckUsageResolved(limited)
    \/ CheckUsageFailed
    \/ AppToggleMic
    \/ \E t \in ToggleIds, hasToken \in BOOLEAN, hasUrl \in BOOLEAN :
           TokenOk(t, hasToken, hasUrl)
    \/ \E t \in ToggleIds : TokenLimit(t)
    \/ \E t \in ToggleIds : TokenFailed(t)
    \/ usageProcessed = {} /\ AgentResponse(<<[id |-> "A", final |-> TRUE]>>)
    \/ \E limited \in BOOLEAN : UsageIncrementResolved(limited)
    \/ UsageIncrementFailed
    \/ LkRoomConnected
    \/ LkRoomReconnecting
    \/ LkRoomDisconnected
    \/ \E v \in Voices : ChangeTtsVoice(v)
    \/ \E p \in Prompts : ChangeAgentPrompt(p)
    \/ \E b \in Businesses : ChangeBusinessDetails(b)

SpecApp == InitApp /\ [][NextApp]_vars

(***************************************************************************)
(* App across page loads: the voice is selected, sessions are opened, and  *)
(* the page is loaded again with what localStorage holds.                  *)
(***************************************************************************)
\* What localStorage can hold under tts_voice when App is created: nothing,
\* or a voice App stored in an earlier page load
StoredValues == Voices \cup {NULL}

\* The page is loaded again: App is created from localStorage, every pending
\* request of the old page is dropped and <LiveKitRoom> is gone.
AppReload ==
    /\ isLimitReached' = FALSE
    /\ liveKitToken' = NULL
    /\ liveKitUrl' = NULL
    /\ isMicActive' = FALSE
    /\ assistantState' = "IDLE"
    /\ isConnecting' = FALSE
    /\ toggles' = [t \in ToggleIds |-> "idle"]
    /\ nToggles' = 0
    /\ usageCheck' = "pending"
    /\ pendingIncr' = 0
    /\ roomState' = "disconnected"
    /\ ttsVoice' = InitialTtsVoice(storedVoice)
    /\ agentPrompt' = ""
    /\ businessDetails' = ""
    /\ lastRefs' = NoRefs
    /\ remoteAttrs' = NoAttrs
    /\ redundantKeys' = {}
    /\ usageProcessed' = {}
    /\ usageIssued' = {}
    /\ usageRepeated' = {}
    /\ usageFinals' = {}
    /\ usageRedelivered' = FALSE
    /\ storedAtStartup' = storedVoice
    /\ startupVoice' = InitialTtsVoice(storedVoice)
    /\ storedVoice' = StoredAfterVoiceEffect(storedVoice, InitialTtsVoice(storedVoice))
    /\ UNCHANGED <<tvars, svars, rvars, pvars>>

InitVoice ==
    /\ TranscriptInit /\ SessionInit(HookRoom) /\ RecorderInit(TRUE)
    /\ PlayerInit("ok", "suspended")
    /\ \E stored \in StoredValues : AppInitFrom(stored)

NextVoice ==
    \/ \E v \in Voices : ChangeTtsVoice(v)
    \/ \E p \in Prompts : ChangeAgentPrompt(p)
    \/ AppReload
    \/ AppToggleMic
    \/ \E t \in ToggleIds : TokenOk(t, TRUE, TRUE)
    \/ LkRoomConnected
    \/ LkRoomDisconnected

SpecVoice == InitVoice /\ [][NextVoice]_vars

\* C28: the value stored under tts_voice equals the selected voice after any
\* sequence of selections and page loads, and the voice App was created with
\* is the value stored at that time, or 'arcas' when nothing was stored.
C28_PersistedVoiceRoundTrip ==
    /\ storedVoice = ttsVoice
    /\ startupVoice = (IF storedAtStartup = NULL THEN "arcas" ELSE storedAtStartup)

\* App was created with 'luna' stored, and 'arcas' was selected afterwards.
C28_Witness ==
    /\ storedAtStartup = "luna"
    /\ startupVoice = "luna"
    /\ ttsVoice = "arcas"
    /\ storedVoice = "arcas"

\* C29: whenever isMicActive is true or the assistant state is LISTENING, a
\* token and a url are held.
C29_UiConsistency ==
    (isMicActive \/ assistantState = "LISTENING")
        => IsLiveKitConnected(liveKitToken, liveKitUrl)

(***************************************************************************)
(* App with an agent that answers: sessions are opened and closed, the     *)
(* agent's transcription segments arrive in any order and any number of    *)
(* times, and the increment endpoint answers, reports the limit or fails.  *)
(***************************************************************************)
NextUsage ==
    \/ AppToggleMic
    \/ \E t \in ToggleIds : TokenOk(t, TRUE, TRUE)
    \/ LkRoomConnected
    \/ LkRoomReconnecting
    \/ LkRoomDisconnected
    \/ \E segs \in AgentTranscriptionValues : AgentResponse(segs)
    \/ \E limited \in BOOLEAN : UsageIncrementResolved(limited)
    \/ UsageIncrementFailed

SpecUsage == InitApp /\ [][NextUsage]_vars

\* C27: while a RoomHandler is mounted, the ids it has issued a usage-increment
\* request for are exactly the ids it has been shown in a final agent segment,
\* and no id has had more than one request, whatever segments were delivered
\* again.
C27_UsageCountedOncePerFinalId ==
    /\ usageIssued = usageFinals
    /\ usageRepeated = {}

\* Two ids were counted, one request each, and a final segment was delivered
\* again after it had been counted.
C27_Witness ==
    /\ usageRedelivered
    /\ usageFinals = {"A", "B"}
    /\ usageIssued = {"A", "B"}
    /\ usageRepeated = {}
    /\ IsMounted

(***************************************************************************)
(* C6: usage cap on a token request.  The step in which toggleMic receives *)
(* {error: "limit_reached"} raises the limit flag, stores no token and no  *)
(* url, leaves isMicActive and the assistant state as they were (false and *)
(* IDLE when the request started from the disconnected state), leaves      *)
(* isConnecting false, and leaves <LiveKitRoom> unmounted with no Room     *)
(* connecting or connected.                                                *)
(***************************************************************************)
C6_LimitReachedOnTokenRequest ==
    [][\A t \in ToggleIds :
          (toggles[t] = "fetch" /\ toggles'[t] = "limit") =>
              /\ isLimitReached'
              /\ liveKitToken' = liveKitToken
              /\ liveKitUrl' = liveKitUrl
              /\ isMicActive' = isMicActive
              /\ assistantState' = assistantState
              /\ ~isConnecting'
              /\ ~Mounted(liveKitToken', liveKitUrl', isLimitReached')
              /\ roomState' = "disconnected"]_vars

\* A token request made from the disconnected state was answered with
\* limit_reached.
C6_Witness ==
    /\ \E t \in ToggleIds : toggles[t] = "limit"
    /\ nToggles = 1
    /\ isLimitReached
    /\ liveKitToken = NULL
    /\ liveKitUrl = NULL
    /\ ~isMicActive
    /\ assistantState = "IDLE"
    /\ ~isConnecting

(***************************************************************************)
(* C7: the usage limit is terminal.  Whenever the limit flag is raised,    *)
(* token and url are cleared, <LiveKitRoom> is unmounted and its Room is   *)
(* disconnected; this holds however the flag was raised and whatever       *)
(* toggleMic call completes afterwards.                                    *)
(***************************************************************************)
C7_LimitIsTerminal ==
    isLimitReached =>
        /\ liveKitToken = NULL
        /\ liveKitUrl = NULL
        /\ ~IsMounted
        /\ roomState = "disconnected"

(***************************************************************************)
(* C10: attribute coalescing in RoomHandler.  No attribute write is issued *)
(* for a key with the value last written for that key on the same Room.    *)
(***************************************************************************)
C10_NoRedundantWrite == redundantKeys = {}

(***************************************************************************)
(* C11: last write wins.  Whenever <LiveKitRoom> is mounted and its Room   *)
(* is connected, the value last written for each of tts_voice,             *)
(* agent_prompt and business_details is the currently configured value,    *)
(* whatever changes were made before, while or after connecting.           *)
(***************************************************************************)
C11_LastWriteWins ==
    (IsMounted /\ roomState = "connected") =>
        /\ remoteAttrs["tts_voice"] = ttsVoice
        /\ remoteAttrs["agent_prompt"] = agentPrompt
        /\ remoteAttrs["business_details"] = businessDetails

\* Connected with every key changed from its initial value, the voice having
\* been written more than once with the same value.
C11_Witness ==
    /\ IsMounted
    /\ roomState = "connected"
    /\ ttsVoice = "luna"
    /\ agentPrompt = "p"
    /\ businessDetails = "b"
    /\ remoteAttrs["tts_voice"] = "luna"
    /\ "tts_voice" \in redundantKeys

(***************************************************************************)
(* Transcript as exposed by useConversationTranscription.                  *)
(***************************************************************************)
SegmentsOf(r) == IF r = "user" THEN userTranscriptions ELSE agentTranscriptions

\* Positions of the synthetic interim entry of a stream in the transcript.
InterimEntries(r) ==
    { i \in 1..Len(AllMessages) : AllMessages[i].id = PrefixedId(r, "interim") }

(***************************************************************************)
(* C12: interim replacement.  For each stream the interim text is the text *)
(* of the segment that arrived last when that segment is non-final and     *)
(* non-blank, and there is none otherwise; the transcript holds at most    *)
(* one interim entry per stream, carrying exactly that text; after         *)
(* non-final "foo" is followed by non-final "foobar" the interim text is   *)
(* "foobar".                                                               *)
(***************************************************************************)
C12_InterimReplacement ==
    \A r \in Roles :
        LET cur == CurrentInterim(SegmentsOf(r)) IN
        /\ cur = IF ~delivered[r].final /\ Trim(delivered[r].text) # <<>>
                 THEN delivered[r].text
                 ELSE NoInterim
        /\ Cardinality(InterimEntries(r)) = IF cur = NoInterim THEN 0 ELSE 1
        /\ \A i \in InterimEntries(r) :
               AllMessages[i].text = cur /\ ~AllMessages[i].isFinal
        /\ (prevInterim[r] = <<"f">> /\ ~delivered[r].final
              /\ delivered[r].text = <<"f", "b">>) => cur = <<"f", "b">>

\* On one stream a non-final segment "foo" was followed by a non-final
\* segment "foobar" with the same id, and "foobar" is the interim text.
C12_Witness ==
    \E r \in Roles :
        /\ prevInterim[r] = <<"f">>
        /\ ~delivered[r].final
        /\ delivered[r].text = <<"f", "b">>
        /\ Len(SegmentsOf(r)) = 1
        /\ CurrentInterim(SegmentsOf(r)) = <<"f", "b">>
        /\ Cardinality(InterimEntries(r)) = 1

(***************************************************************************)
(* C13: transcript ordering.  The transcript the hook returns is sorted by *)
(* non-decreasing timestamp: of two finalized messages of different        *)
(* streams the one with the smaller timestamp is listed first, and an      *)
(* interim entry is listed after every finalized entry with an earlier     *)
(* timestamp.  The sort neither drops nor adds an entry.                   *)
(***************************************************************************)
C13_TranscriptOrdering ==
    LET out == AllMessages IN
    /\ Len(out) = Len(WithInterims(messages, CurrentInterim(userTranscriptions),
                                   CurrentInterim(agentTranscriptions), memoTime))
    /\ \A i, j \in 1..Len(out) :
          /\ i < j => out[i].timestamp <= out[j].timestamp
          /\ (out[i].isFinal /\ out[j].isFinal /\ out[i].role # out[j].role
                /\ out[i].timestamp < out[j].timestamp) => i < j
          /\ (out[i].isFinal /\ ~out[j].isFinal
                /\ out[i].timestamp < out[j].timestamp) => i < j

\* Two finalized messages of different streams, the one appended first
\* carrying the later timestamp, are listed by timestamp.
C13_Witness ==
    /\ Len(messages) = 2
    /\ messages[1].role # messages[2].role
    /\ messages[1].timestamp > messages[2].timestamp
    /\ AllMessages[1] = messages[2]
    /\ AllMessages[2] = messages[1]

(***************************************************************************)
(* C14: interim segments never enter the finalized log.  Every entry of    *)
(* the log has isFinal = true, carries the prefixed id of a segment that   *)
(* was delivered as final, and never an interim id; the transcript holds   *)
(* at most one non-final entry per role, with id user-interim or           *)
(* agent-interim.                                                          *)
(***************************************************************************)
C14_InterimNeverInLog ==
    /\ \A i \in 1..Len(messages) :
          /\ messages[i].isFinal
          /\ messages[i].id \in AllPrefixedIds
          /\ finalSeen[messages[i].id].n >= 1
    /\ \A r \in Roles :
          LET nonFinal == { i \in 1..Len(AllMessages) :
                              ~AllMessages[i].isFinal
                              /\ AllMessages[i].role = RoleOf(r) }
          IN /\ Cardinality(nonFinal) <= 1
             /\ \A i \in nonFinal : AllMessages[i].id = PrefixedId(r, "interim")

\* A finalized message and an interim entry are in the transcript together.
C14_Witness ==
    /\ Len(messages) = 1
    /\ Len(AllMessages) = 2
    /\ \E i \in 1..2 : ~AllMessages[i].isFinal

(***************************************************************************)
(* C15: finalized messages are immutable and the log is append-only.  A    *)
(* step that is not clearMessages() leaves every entry of the finalized    *)
(* log in place with its text, role and timestamp, and adds entries only   *)
(* at the end, even when a stream re-emits a finalized id as final with    *)
(* another text.                                                           *)
(***************************************************************************)
C15_AppendOnlyLog ==
    [][IsPrefix(messages, messages') \/ (messages' = <<>> /\ processedSegments' = {})]_vars

\* A finalized id was re-emitted as final with another text and the log
\* still holds the first text.
C15_Witness ==
    \E r \in Roles :
        /\ delivered[r].final
        /\ delivered[r].text = <<"f", "b">>
        /\ finalSeen[PrefixedId(r, delivered[r].id)].n >= 2
        /\ ~finalSeen[PrefixedId(r, delivered[r].id)].cleared
        /\ Len(messages) = 1
        /\ messages[1].id = PrefixedId(r, delivered[r].id)
        /\ messages[1].text = <<"f">>

(***************************************************************************)
(* C16: clearMessages() empties the finalized log and the record of seen   *)
(* segment ids in one step and leaves the segment lists and each stream's  *)
(* interim text unchanged; in every state every id in the log is in the    *)
(* record, so no handler finds the log kept and the record cleared.  (A    *)
(* step that delivers no segment and leaves the clock alone is a           *)
(* clearMessages() call.)                                                  *)
(***************************************************************************)
C16_ClearMessagesAtomic ==
    [][/\ \A i \in 1..Len(messages') : messages'[i].id \in processedSegments'
       /\ (events' = events /\ now' = now) =>
             /\ messages' = <<>>
             /\ processedSegments' = {}
             /\ userTranscriptions' = userTranscriptions
             /\ agentTranscriptions' = agentTranscriptions
             /\ \A r \in Roles :
                   CurrentInterim(SegmentsOf(r))' = CurrentInterim(SegmentsOf(r))]_vars

\* clearMessages() was called after a segment had been finalized, while a
\* stream had interim text; both stores are empty and the interim text is
\* still exposed.
C16_Witness ==
    /\ \E k \in AllPrefixedIds : finalSeen[k].n >= 1 /\ finalSeen[k].cleared
    /\ messages = <<>>
    /\ processedSegments = {}
    /\ \E r \in Roles : CurrentInterim(SegmentsOf(r)) # NoInterim

(***************************************************************************)
(* useAudioRecorder: capture stream, voice-activity detector, analyser.    *)
(*                                                                         *)
(* A startRecording() invocation c is suspended at starts[c]:              *)
(*   "media"  awaiting navigator.mediaDevices.getUserMedia                 *)
(*   "vad"    awaiting window.vad.MicVAD.new                               *)
(* and ends "done" (returned normally) or "failed" (its catch block ran).  *)
(***************************************************************************)
othervars == <<tvars, svars, avars, pvars>>

\* The catch block of startRecording(): setError(err.message).
StartCatch(c) ==
    /\ recError' = "error"
    /\ starts' = [starts EXCEPT ![c] = "failed"]

\* getTracks().forEach(t => t.stop()) left out.
StopTracksSkipped(strs, s) == strs

\* streamRef.current.getTracks().forEach(t => t.stop())
StopTracks(strs, s) == [strs EXCEPT ![s] = "stopped"]

\* startRecording() up to its first await: setError(null), then the check of
\* window.vad, then the capture request.
(***************************************************************************)
(* The encoding of a speech segment (lines 254-270).  A sample is held in  *)
(* halves: the number x stands for the float x / 2.                        *)
(***************************************************************************)
Samples == {-3, -1, 0, 1, 2}
AudioSegments == { <<2>>, <<-3, 1>>, <<-1, 0, 2>> }

\* Math.max(-1, Math.min(1, input[i])), in halves
ClampSample(x) == IF x < -2 THEN -2 ELSE IF x > 2 THEN 2 ELSE x

\* s < 0 ? s * 0x8000 : s * 0x7FFF, stored in an Int16Array element, which
\* drops the fraction
ScaleSample(x) ==
    LET s == ClampSample(x)
    IN IF s < 0 THEN -((-s * 32768) \div 2) ELSE (s * 32767) \div 2

FloatTo16BitPCM(input) == [i \in 1..Len(input) |-> ScaleSample(input[i])]

\* pcm.buffer: the bytes of the Int16Array, two per element, low byte first
RECURSIVE BufferOf(_)
BufferOf(pcm) ==
    IF pcm = <<>> THEN <<>>
    ELSE LET u == (Head(pcm) + 65536) % 65536
         IN <<u % 256, u \div 256>> \o BufferOf(Tail(pcm))

\* btoa of the binary string of the bytes: the base64 digits as numbers
\* 0..63, and 64 for the padding character
RECURSIVE ArrayBufferToBase64(_)
ArrayBufferToBase64(bytes) ==
    IF bytes = <<>> THEN <<>>
    ELSE IF Len(bytes) = 1
    THEN <<bytes[1] \div 4, (bytes[1] % 4) * 16, 64, 64>>
    ELSE IF Len(bytes) = 2
    THEN <<bytes[1] \div 4, (bytes[1] % 4) * 16 + bytes[2] \div 16,
           (bytes[2] % 16) * 4, 64>>
    ELSE <<bytes[1] \div 4, (bytes[1] % 4) * 16 + bytes[2] \div 16,
           (bytes[2] % 16) * 4 + bytes[3] \div 64, bytes[3] % 64>>
         \o ArrayBufferToBase64(SubSeq(bytes, 4, Len(bytes)))

\* Detector callbacks that pass the segment to onAudioData whether or not the
\* interval was long enough.
AudioDataAfterAnyEnd(callback, data, audio) ==
    IF callback \in {"speechEnd", "misfire"}
    THEN Append(data, ArrayBufferToBase64(BufferOf(FloatTo16BitPCM(audio))))
    ELSE data

\* The payloads passed to onAudioData so far, after a detector callback:
\* only onSpeechEnd calls onAudioData, once.
AudioDataAfter(callback, data, audio) ==
    IF callback = "speechEnd"
    THEN Append(data, ArrayBufferToBase64(BufferOf(FloatTo16BitPCM(audio))))
    ELSE data

StartRecording ==
    /\ recMounted
    /\ nStarts < MaxStarts
    /\ nStarts' = nStarts + 1
    /\ IF vadLoaded
       THEN /\ recError' = NULL
            /\ starts' = [starts EXCEPT ![nStarts + 1] = "media"]
            /\ recOp' = "start"
       ELSE /\ StartCatch(nStarts + 1)
            /\ recOp' = "noLibrary"
    /\ UNCHANGED <<recMounted, vadLoaded, isRecording, analyser, isSpeechDetected,
                   vadRef, streamRef, audioContextRef, streams, vads, ctxs,
                   stopTargets>>
    /\ UNCHANGED <<othervars, spvars>>

\* getUserMedia resolves: streamRef.current = stream, then MicVAD.new is
\* awaited.
MediaGranted(c) ==
    /\ starts[c] = "media"
    /\ streams' = [streams EXCEPT ![c] = "live"]
    /\ streamRef' = c
    /\ starts' = [starts EXCEPT ![c] = "vad"]
    /\ recOp' = "mediaGranted"
    /\ UNCHANGED <<recMounted, vadLoaded, isRecording, recError, analyser,
                   isSpeechDetected, vadRef, audioContextRef, nStarts, vads, ctxs,
                   stopTargets>>
    /\ UNCHANGED <<othervars, spvars>>

\* getUserMedia rejects (permission denied, no device): the catch block runs.
MediaDenied(c) ==
    /\ starts[c] = "media"
    /\ StartCatch(c)
    /\ recOp' = "mediaDenied"
    /\ UNCHANGED <<recMounted, vadLoaded, isRecording, analyser, isSpeechDetected,
                   vadRef, streamRef, audioContextRef, nStarts, streams, vads,
                   ctxs, stopTargets>>
    /\ UNCHANGED <<othervars, spvars>>

\* MicVAD.new rejects after the stream was acquired: the catch block runs.
VadFailed(c) ==
    /\ starts[c] = "vad"
    /\ StartCatch(c)
    /\ recOp' = "vadFailed"
    /\ UNCHANGED <<recMounted, vadLoaded, isRecording, analyser, isSpeechDetected,
                   vadRef, streamRef, audioContextRef, nStarts, streams, vads,
                   ctxs, stopTargets>>
    /\ UNCHANGED <<othervars, spvars>>

\* MicVAD.new resolves: vadRef.current = micVAD, micVAD.start(),
\* setIsRecording(true), then the analyser setup.  The setup succeeds
\* ("ok"), or new AudioContext throws ("noContext"), or
\* createMediaStreamSource throws after audioContextRef was assigned
\* ("noSource"); a throw runs the catch block.
VadCreated(c, setup) ==
    /\ starts[c] = "vad"
    /\ vads' = [vads EXCEPT ![c] = "running"]
    /\ vadRef' = c
    /\ isRecording' = TRUE
    /\ IF setup = "ok"
       THEN /\ ctxs' = [ctxs EXCEPT ![c] = "open"]
            /\ audioContextRef' = c
            /\ analyser' = c
            /\ starts' = [starts EXCEPT ![c] = "done"]
            /\ recOp' = "started"
            /\ UNCHANGED recError
       ELSE /\ IF setup = "noSource"
               THEN ctxs' = [ctxs EXCEPT ![c] = "open"] /\ audioContextRef' = c
               ELSE UNCHANGED <<ctxs, audioContextRef>>
            /\ StartCatch(c)
            /\ recOp' = "analyserFailed"
            /\ UNCHANGED analyser
    /\ UNCHANGED <<recMounted, vadLoaded, isSpeechDetected, streamRef, nStarts,
                   streams, stopTargets>>
    /\ UNCHANGED <<othervars, spvars>>

\* stopRecording().  When vadRef.current.pause() throws, the exception
\* leaves the function at that statement.
StopRecording(pauseThrows) ==
    /\ recMounted
    /\ pauseThrows => vadRef # 0
    /\ stopTargets' = [vad |-> vadRef, stream |-> streamRef, ctx |-> audioContextRef]
    /\ IF pauseThrows
       THEN /\ recOp' = "stopThrew"
            /\ UNCHANGED <<vads, vadRef, streams, streamRef, ctxs, audioContextRef,
                           isRecording, isSpeechDetected, analyser>>
       ELSE /\ recOp' = "stop"
            /\ vads' = IF vadRef # 0 THEN [vads EXCEPT ![vadRef] = "paused"] ELSE vads
            /\ vadRef' = 0
            /\ streams' = IF streamRef # 0 THEN StopTracks(streams, streamRef)
                          ELSE streams
            /\ streamRef' = 0
            /\ ctxs' = IF audioContextRef # 0
                       THEN [ctxs EXCEPT ![audioContextRef] = "closed"]
                       ELSE ctxs
            /\ audioContextRef' = 0
            /\ isRecording' = FALSE
            /\ isSpeechDetected' = FALSE
            /\ analyser' = 0
    /\ speaking' = IF pauseThrows THEN speaking ELSE speaking \ {vadRef}
    /\ inSpeech' = FALSE
    /\ UNCHANGED <<recMounted, vadLoaded, recError, starts, nStarts, ended,
                   audioData>>
    /\ UNCHANGED othervars

\* The component unmounts; the cleanup of the mount effect runs:
\*   if (vadRef.current) vadRef.current.pause()
RecorderUnmount ==
    /\ recMounted
    /\ recMounted' = FALSE
    /\ vads' = IF vadRef # 0 THEN [vads EXCEPT ![vadRef] = "paused"] ELSE vads
    /\ recOp' = "unmount"
    /\ UNCHANGED <<vadLoaded, isRecording, recError, analyser, isSpeechDetected,
                   vadRef, streamRef, audioContextRef, starts, nStarts, streams,
                   ctxs, stopTargets, inSpeech, ended, audioData>>
    /\ speaking' = speaking \ {vadRef}
    /\ UNCHANGED othervars

\* The onSpeechStart callback of a running detector: setIsSpeechDetected(true),
\* then the caller's onSpeechStart hook.
SpeechStart(v) ==
    /\ recMounted
    /\ vads[v] = "running"
    /\ v \notin speaking
    /\ Len(ended) + Cardinality(speaking) < MaxSpeech
    /\ speaking' = speaking \cup {v}
    /\ isSpeechDetected' = TRUE
    /\ inSpeech' = TRUE
    /\ audioData' = AudioDataAfter("speechStart", audioData, <<>>)
    /\ recOp' = "speechStart"
    /\ UNCHANGED <<recMounted, vadLoaded, isRecording, recError, analyser, vadRef,
                   streamRef, audioContextRef, starts, nStarts, streams, vads, ctxs,
                   stopTargets, ended>>
    /\ UNCHANGED othervars

\* The onSpeechEnd callback of a running detector, with the samples of the
\* interval: setIsSpeechDetected(false), then onAudioData(b64).
SpeechEnd(v, audio) ==
    /\ recMounted
    /\ vads[v] = "running"
    /\ v \in speaking
    /\ speaking' = speaking \ {v}
    /\ isSpeechDetected' = FALSE
    /\ inSpeech' = FALSE
    /\ ended' = Append(ended, audio)
    /\ audioData' = AudioDataAfter("speechEnd", audioData, audio)
    /\ recOp' = "speechEnd"
    /\ UNCHANGED <<recMounted, vadLoaded, isRecording, recError, analyser, vadRef,
                   streamRef, audioContextRef, starts, nStarts, streams, vads, ctxs,
                   stopTargets>>
    /\ UNCHANGED othervars

\* The onVADMisfire callback of a running detector (the interval was shorter
\* than minSpeechFrames): setIsSpeechDetected(false).
VADMisfire(v) ==
    /\ recMounted
    /\ vads[v] = "running"
    /\ v \in speaking
    /\ speaking' = speaking \ {v}
    /\ isSpeechDetected' = FALSE
    /\ inSpeech' = FALSE
    /\ audioData' = AudioDataAfter("misfire", audioData, <<>>)
    /\ recOp' = "misfire"
    /\ UNCHANGED <<recMounted, vadLoaded, isRecording, recError, analyser, vadRef,
                   streamRef, audioContextRef, starts, nStarts, streams, vads, ctxs,
                   stopTargets, ended>>
    /\ UNCHANGED othervars

AnalyserSetups == {"ok", "noContext", "noSource"}

InitRecorder ==
    /\ TranscriptInit /\ SessionInit(HookRoom) /\ AppInit
    /\ \E loaded \in BOOLEAN : RecorderInit(loaded)
    /\ PlayerInit("ok", "suspended")

NextRecorder ==
    \/ StartRecording
    \/ \E c \in StartIds : MediaGranted(c)
    \/ \E c \in StartIds : MediaDenied(c)
    \/ \E c \in StartIds : VadFailed(c)
    \/ \E c \in StartIds, setup \in AnalyserSetups : VadCreated(c, setup)
    \/ \E pauseThrows \in BOOLEAN : StopRecording(pauseThrows)
    \/ RecorderUnmount
    \/ \E v \in StartIds : SpeechStart(v)
    \/ \E v \in StartIds : VADMisfire(v)

SpecRecorder == InitRecorder /\ [][NextRecorder]_vars

(***************************************************************************)
(* C17: recording teardown completeness.  After a stopRecording() that     *)
(* ran to its end, the tracks of the stream streamRef held are stopped,    *)
(* the detector vadRef held is paused, the context audioContextRef held is *)
(* closed, the three refs are null, isRecording and isSpeechDetected are   *)
(* false and analyser is null; and startRecording() can be called again    *)
(* and acquires a new stream.                                              *)
(***************************************************************************)
C17_TeardownComplete ==
    /\ recOp = "stop" =>
          /\ stopTargets.stream # 0 => streams[stopTargets.stream] = "stopped"
          /\ stopTargets.vad # 0 => vads[stopTargets.vad] = "paused"
          /\ stopTargets.ctx # 0 => ctxs[stopTargets.ctx] = "closed"
          /\ vadRef = 0 /\ streamRef = 0 /\ audioContextRef = 0
          /\ ~isRecording /\ ~isSpeechDetected /\ analyser = 0
          /\ nStarts < MaxStarts => ENABLED StartRecording
    /\ \A c \in StartIds :
          (recOp = "mediaGranted" /\ starts[c] = "vad" /\ streamRef = c) =>
              streams[c] = "live"

\* A recording that had fully started was stopped, and the next
\* startRecording() has acquired a new stream while the first one is stopped.
C17_Witness ==
    /\ recOp = "mediaGranted"
    /\ starts[1] = "done"
    /\ starts[2] = "vad"
    /\ stopTargets = [vad |-> 1, stream |-> 1, ctx |-> 1]
    /\ streams[1] = "stopped"
    /\ streams[2] = "live"
    /\ vads[1] = "paused"
    /\ ctxs[1] = "closed"
    /\ streamRef = 2

(***************************************************************************)
(* C18: stopRecording() runs all of its steps even when an earlier step    *)
(* fails.  After a stopRecording() call, whether or not halting the        *)
(* detector threw, the tracks of the stream streamRef held are stopped,    *)
(* the context audioContextRef held is closed, and analyser,               *)
(* isSpeechDetected and isRecording are cleared.                           *)
(***************************************************************************)
C18_AllStepsRun ==
    recOp \in {"stop", "stopThrew"} =>
        /\ stopTargets.stream # 0 => streams[stopTargets.stream] = "stopped"
        /\ stopTargets.ctx # 0 => ctxs[stopTargets.ctx] = "closed"
        /\ analyser = 0
        /\ ~isSpeechDetected
        /\ ~isRecording

(***************************************************************************)
(* C19: a failed startRecording() leaves no partial state.  After the      *)
(* catch block of startRecording() has run (library missing, capture       *)
(* denied, detector initialisation failed, analyser setup failed), error   *)
(* is non-null, isRecording is false, no capture stream has a live track   *)
(* and no detector is running.                                             *)
(***************************************************************************)
C19_NoPartialState ==
    recOp \in {"noLibrary", "mediaDenied", "vadFailed", "analyserFailed"} =>
        /\ recError # NULL
        /\ ~isRecording
        /\ \A c \in StartIds : streams[c] # "live" /\ vads[c] # "running"

(***************************************************************************)
(* C20: capture release on teardown.  After the recorder component has     *)
(* unmounted, no capture stream has a live track.                          *)
(***************************************************************************)
C20_CaptureReleasedOnUnmount ==
    recOp = "unmount" => \A c \in StartIds : streams[c] # "live"

\* C36: when stopRecording() has just returned and no startRecording() is
\* suspended, no acquired stream has a live track and no detector is running.
C36_NoLeakedCaptureStream ==
    (recOp = "stop" /\ \A c \in StartIds : starts[c] \notin {"media", "vad"}) =>
        \A c \in StartIds : streams[c] # "live" /\ vads[c] # "running"

(***************************************************************************)
(* useAudioPlayer: the loopback bridge and the registry of active sources. *)
(*                                                                         *)
(* A playAudio() invocation c is suspended at plays[c]:                    *)
(*   "resume"  awaiting ctx.resume()                                       *)
(*   "elplay"  awaiting audioEl.play()                                     *)
(*   "decode"  awaiting ctx.decodeAudioData(arrayBuffer)                   *)
(* and ends "done" (a source was started), "noBridge" (returned at the     *)
(* bridge check) or "failed" (its catch block ran).                        *)
(***************************************************************************)
nonplayervars == <<tvars, svars, avars, rvars>>

\* After the element check: atob(base64Audio) throws on a payload that is
\* not base64, which runs the catch block; otherwise decodeAudioData is
\* awaited.
PcAtDecode(payload) == IF payload = "badBase64" THEN "failed" ELSE "decode"

\* After the context check: if (audioEl && audioEl.paused) await audioEl.play()
PcAtElement(el, payload) == IF el = "paused" THEN "elplay" ELSE PcAtDecode(payload)

\* After the bridge check: if (ctx.state === 'suspended') await ctx.resume()
PcAtResume(ctx, el, payload) ==
    IF ctx = "suspended" THEN "resume" ELSE PcAtElement(el, payload)

\* An onended handler that empties the registry.
WithoutSourceClearsAll(reg, s) == <<>>

RECURSIVE WithoutSource(_, _)
\* activeSourcesRef.current.filter(s => s !== source)
WithoutSource(reg, s) ==
    IF reg = <<>> THEN <<>>
    ELSE IF Head(reg) = s THEN WithoutSource(Tail(reg), s)
         ELSE <<Head(reg)>> \o WithoutSource(Tail(reg), s)

\* An onended handler that clears isPlaying whatever the registry holds.
PlayingAfterEndedAlwaysCleared(reg, playing) == FALSE

\* source.onended: if (activeSourcesRef.current.length === 0) setIsPlaying(false)
PlayingAfterEnded(reg, playing) == IF Len(reg) = 0 THEN FALSE ELSE playing

\* stopAllAudio() with source.stop() outside a try block: a throw leaves the
\* registry as it was.
RegistryAfterStopAllUncaught(reg, throws) == IF throws THEN reg ELSE <<>>

\* stopAllAudio(): each source.stop() is inside try/catch, then
\* activeSourcesRef.current = [].
RegistryAfterStopAll(reg, throws) == <<>>

\* source.stop() on every registered source: a playing source is stopped, a
\* source that has already finished stays finished.
StopSources(srcs, reg) ==
    [s \in PlayIds |->
        IF (\E i \in 1..Len(reg) : reg[i] = s) /\ srcs[s] = "playing"
        THEN "stopped"
        ELSE srcs[s]]

\* A decode failure that also empties the registry.
RegistryAfterDecodeErrorCleared(reg) == <<>>

\* The catch block of playAudio() only logs: the registry is left alone.
RegistryAfterDecodeError(reg) == reg

\* The playAudio() invocations suspended at one of the awaits of playAudio()
InFlight(ps) == { c \in PlayIds : ps[c] \in {"resume", "elplay", "decode"} }

\* playAudio(payload) up to its first await.
PlayAudio(payload) ==
    /\ nPlays < MaxPlays
    /\ nPlays' = nPlays + 1
    /\ payloads' = [payloads EXCEPT ![nPlays + 1] = payload]
    /\ plays' = [plays EXCEPT ![nPlays + 1] =
                    IF playerCtx = "none" \/ ~analyserReady
                    THEN "noBridge"
                    ELSE PcAtResume(playerCtx, audioEl, payload)]
    /\ activeSources' = IF playerCtx # "none" /\ analyserReady
                           /\ PcAtResume(playerCtx, audioEl, payload) = "failed"
                        THEN RegistryAfterDecodeError(activeSources)
                        ELSE activeSources
    /\ playerOp' = "play"
    /\ UNCHANGED <<playerCtx, analyserReady, audioEl, sources, isPlaying>>
    /\ UNCHANGED stoppedInFlight
    /\ UNCHANGED nonplayervars

\* ctx.resume() resolves.
ResumeResolved(c) ==
    /\ plays[c] = "resume"
    /\ playerCtx' = "running"
    /\ plays' = [plays EXCEPT ![c] = PcAtElement(audioEl, payloads[c])]
    /\ activeSources' = IF PcAtElement(audioEl, payloads[c]) = "failed"
                        THEN RegistryAfterDecodeError(activeSources)
                        ELSE activeSources
    /\ playerOp' = "resumed"
    /\ UNCHANGED <<analyserReady, audioEl, sources, isPlaying, payloads, nPlays>>
    /\ UNCHANGED stoppedInFlight
    /\ UNCHANGED nonplayervars

\* ctx.resume() rejects: the catch block runs.
ResumeRejected(c) ==
    /\ plays[c] = "resume"
    /\ plays' = [plays EXCEPT ![c] = "failed"]
    /\ playerOp' = "resumeRejected"
    /\ UNCHANGED <<playerCtx, analyserReady, audioEl, activeSources, sources,
                   isPlaying, payloads, nPlays>>
    /\ UNCHANGED stoppedInFlight
    /\ UNCHANGED nonplayervars

\* audioEl.play() resolves, or rejects into the inner catch (autoplay
\* blocked); playAudio() goes on in both cases.
ElementPlaySettled(c, ok) ==
    /\ plays[c] = "elplay"
    /\ audioEl' = IF ok THEN "playing" ELSE audioEl
    /\ plays' = [plays EXCEPT ![c] = PcAtDecode(payloads[c])]
    /\ activeSources' = IF PcAtDecode(payloads[c]) = "failed"
                        THEN RegistryAfterDecodeError(activeSources)
                        ELSE activeSources
    /\ playerOp' = "elementPlay"
    /\ UNCHANGED <<playerCtx, analyserReady, sources, isPlaying, payloads, nPlays>>
    /\ UNCHANGED stoppedInFlight
    /\ UNCHANGED nonplayervars

\* decodeAudioData resolves: the source is created, connected and started,
\* setIsPlaying(true), the source is pushed on the registry and its onended
\* handler is set.
DecodeResolved(c) ==
    /\ plays[c] = "decode"
    /\ payloads[c] = "ok"
    /\ sources' = [sources EXCEPT ![c] = "playing"]
    /\ isPlaying' = TRUE
    /\ activeSources' = Append(activeSources, c)
    /\ plays' = [plays EXCEPT ![c] = "done"]
    /\ playerOp' = "started"
    /\ UNCHANGED <<playerCtx, analyserReady, audioEl, payloads, nPlays>>
    /\ UNCHANGED stoppedInFlight
    /\ UNCHANGED nonplayervars

\* decodeAudioData rejects: the catch block runs.
DecodeRejected(c) ==
    /\ plays[c] = "decode"
    /\ payloads[c] = "badAudio"
    /\ plays' = [plays EXCEPT ![c] = "failed"]
    /\ activeSources' = RegistryAfterDecodeError(activeSources)
    /\ playerOp' = "decodeRejected"
    /\ UNCHANGED <<playerCtx, analyserReady, audioEl, sources, isPlaying,
                   payloads, nPlays>>
    /\ UNCHANGED stoppedInFlight
    /\ UNCHANGED nonplayervars

\* A playing source reaches the end of its buffer; its ended event is queued.
SourceFinished(s) ==
    /\ sources[s] = "playing"
    /\ sources' = [sources EXCEPT ![s] = "finished"]
    /\ playerOp' = "finished"
    /\ UNCHANGED <<playerCtx, analyserReady, audioEl, activeSources, isPlaying,
                   plays, payloads, nPlays>>
    /\ UNCHANGED stoppedInFlight
    /\ UNCHANGED nonplayervars

\* The ended event of a finished or stopped source is dispatched: onended
\* removes the source from the registry and clears isPlaying when the
\* registry is empty.
SourceEnded(s) ==
    /\ sources[s] \in {"finished", "stopped"}
    /\ sources' = [sources EXCEPT ![s] = "ended"]
    /\ activeSources' = WithoutSource(activeSources, s)
    /\ isPlaying' = PlayingAfterEnded(WithoutSource(activeSources, s), isPlaying)
    /\ playerOp' = "ended"
    /\ UNCHANGED <<playerCtx, analyserReady, audioEl, plays, payloads, nPlays>>
    /\ UNCHANGED stoppedInFlight
    /\ UNCHANGED nonplayervars

\* stopAllAudio(); throws says that source.stop() threw for a registered
\* source that had already finished.
StopAllAudio(throws) ==
    /\ throws => \E i \in 1..Len(activeSources) : sources[activeSources[i]] = "finished"
    /\ sources' = StopSources(sources, activeSources)
    /\ activeSources' = RegistryAfterStopAll(activeSources, throws)
    /\ isPlaying' = (RegistryAfterStopAll(activeSources, throws) # <<>>)
    /\ playerOp' = IF throws THEN "stopAllCaught" ELSE "stopAll"
    /\ stoppedInFlight' = stoppedInFlight \cup InFlight(plays)
    /\ UNCHANGED <<playerCtx, analyserReady, audioEl, plays, payloads, nPlays>>
    /\ UNCHANGED nonplayervars

InitPlayer ==
    /\ TranscriptInit /\ SessionInit(HookRoom) /\ AppInit /\ RecorderInit(TRUE)
    /\ \E bridge \in BridgeInits, ctxState \in ContextStates :
           PlayerInit(bridge, ctxState)

NextPlayer ==
    \/ \E payload \in Payloads : PlayAudio(payload)
    \/ \E c \in PlayIds : ResumeResolved(c)
    \/ \E c \in PlayIds : ResumeRejected(c)
    \/ \E c \in PlayIds, ok \in BOOLEAN : ElementPlaySettled(c, ok)
    \/ \E c \in PlayIds : DecodeResolved(c)
    \/ \E c \in PlayIds : DecodeRejected(c)
    \/ \E s \in PlayIds : SourceFinished(s)
    \/ \E s \in PlayIds : SourceEnded(s)
    \/ \E throws \in BOOLEAN : StopAllAudio(throws)

SpecPlayer == InitPlayer /\ [][NextPlayer]_vars

\* Playback runs on: a playing source reaches the end of its buffer, and a
\* queued ended event is dispatched.
FairPlayer ==
    \A s \in PlayIds : WF_vars(SourceFinished(s)) /\ WF_vars(SourceEnded(s))

SpecPlayerFair == SpecPlayer /\ FairPlayer

\* The sources a registry holds
Registered(reg) == { reg[i] : i \in 1..Len(reg) }

\* C31: the ended callback of a source that finished naturally removes that
\* source from the registry and no other; and when sources keep ending, the
\* registry is eventually empty for good with isPlaying false.
C31_NaturalCompletionDrains ==
    /\ [][\A s \in PlayIds :
            (sources[s] = "finished" /\ sources'[s] = "ended") =>
                /\ Registered(activeSources') = Registered(activeSources) \ {s}
                /\ Len(activeSources') = Cardinality(Registered(activeSources'))]_vars
    /\ <>[](activeSources = <<>> /\ ~isPlaying)

\* The first source has ended and removed itself; the second, which has
\* reached the end of its buffer, is still registered.
C31_Witness ==
    /\ sources[1] = "ended"
    /\ sources[2] = "finished"
    /\ activeSources = <<2>>
    /\ isPlaying

\* C37: a playAudio() call that is suspended when stopAllAudio() runs starts
\* no source afterwards.  Stated for the step that starts a source: the call
\* it belongs to was not suspended at an await when stopAllAudio() ran.
C37_BargeInCoversInFlight ==
    [][\A c \in PlayIds :
          (plays[c] = "decode" /\ plays'[c] = "done") => c \notin stoppedInFlight]_vars

(***************************************************************************)
(* C23: isPlaying reflects the registry.  In every state of useAudioPlayer *)
(* isPlaying is true if and only if the registry of active sources is not  *)
(* empty, whatever the interleaving of playAudio completions, ended        *)
(* callbacks and stopAllAudio calls.                                       *)
(***************************************************************************)
C23_IsPlayingReflectsRegistry == isPlaying <=> (activeSources # <<>>)

\* The ended callback of the first source ran after the source had left or
\* was leaving the registry, while the second source is registered.
C23_Witness ==
    /\ playerOp = "ended"
    /\ sources[1] = "ended"
    /\ sources[2] = "playing"
    /\ activeSources = <<2>>
    /\ isPlaying

(***************************************************************************)
(* C24: after stopAllAudio() no source is playing, the registry is empty   *)
(* and isPlaying is false, also when stop() threw for a registered source  *)
(* that had already finished.                                              *)
(***************************************************************************)
C24_StopAllAudio ==
    playerOp \in {"stopAll", "stopAllCaught"} =>
        /\ activeSources = <<>>
        /\ ~isPlaying
        /\ \A s \in PlayIds : sources[s] # "playing"

\* Two sources had started and neither had ended when stopAllAudio() ran.
C24_Witness ==
    /\ playerOp = "stopAll"
    /\ sources[1] = "stopped"
    /\ sources[2] = "stopped"
    /\ activeSources = <<>>
    /\ ~isPlaying

(***************************************************************************)
(* C25: playback decode error isolation.  The step in which a playAudio()  *)
(* invocation with an undecodable payload reaches its catch block adds no  *)
(* source, leaves the registry, isPlaying, the analyser and every source   *)
(* as they were and keeps the audio context; the invocation ends in its    *)
(* catch block, which does not rethrow.                                    *)
(***************************************************************************)
C25_DecodeErrorIsolation ==
    [][\A c \in PlayIds :
          (plays[c] # "failed" /\ plays'[c] = "failed"
              /\ payloads'[c] \in {"badBase64", "badAudio"}) =>
              /\ activeSources' = activeSources
              /\ isPlaying' = isPlaying
              /\ sources' = sources
              /\ sources'[c] = "none"
              /\ analyserReady' = analyserReady
              /\ playerCtx' \in {playerCtx, "running"}]_vars

\* decodeAudioData rejected the second payload while the first source plays.
C25_Witness ==
    /\ playerOp = "decodeRejected"
    /\ plays[1] = "done"
    /\ sources[1] = "playing"
    /\ plays[2] = "failed"
    /\ payloads[2] = "badAudio"
    /\ activeSources = <<1>>
    /\ isPlaying

(***************************************************************************)
(* useAudioRecorder with detectors that report speech: recordings start    *)
(* without failure, are stopped and started again.                         *)
(***************************************************************************)
InitVad ==
    /\ TranscriptInit /\ SessionInit(HookRoom) /\ AppInit
    /\ RecorderInit(TRUE)
    /\ PlayerInit("ok", "suspended")

NextVad ==
    \/ StartRecording
    \/ \E c \in StartIds : MediaGranted(c)
    \/ \E c \in StartIds : VadCreated(c, "ok")
    \/ \E pauseThrows \in BOOLEAN : StopRecording(pauseThrows)
    \/ RecorderUnmount
    \/ \E v \in StartIds : SpeechStart(v)
    \/ \E v \in StartIds, audio \in AudioSegments : SpeechEnd(v, audio)
    \/ \E v \in StartIds : VADMisfire(v)

SpecVad == InitVad /\ [][NextVad]_vars

(***************************************************************************)
(* Speech callbacks of useAudioRecorder                                    *)
(***************************************************************************)
\* The bytes a base64 text stands for
RECURSIVE Base64Decode(_)
Base64Decode(digits) ==
    IF Len(digits) < 4 THEN <<>>
    ELSE LET d == SubSeq(digits, 1, 4)
             b1 == d[1] * 4 + d[2] \div 16
             b2 == (d[2] % 16) * 16 + d[3] \div 4
             b3 == (d[3] % 4) * 64 + d[4]
         IN (IF d[3] = 64 THEN <<b1>>
             ELSE IF d[4] = 64 THEN <<b1, b2>>
             ELSE <<b1, b2, b3>>)
            \o Base64Decode(SubSeq(digits, 5, Len(digits)))

\* The signed 16-bit numbers a byte sequence holds, low byte first
RECURSIVE Int16sOf(_)
Int16sOf(bytes) ==
    IF Len(bytes) < 2 THEN <<>>
    ELSE LET u == bytes[1] + 256 * bytes[2]
         IN <<IF u >= 32768 THEN u - 65536 ELSE u>>
            \o Int16sOf(SubSeq(bytes, 3, Len(bytes)))

\* C26: the audio-data hook has been called exactly once per speech-end
\* callback, in order, each time with the base64 text of the 16-bit PCM samples
\* of that callback's segment; speech-start and misfire callbacks add no call.
C26_SpeechPayloadDelivery ==
    /\ Len(audioData) = Len(ended)
    /\ \A i \in 1..Len(ended) :
          /\ Len(audioData[i]) % 4 = 0
          /\ Int16sOf(Base64Decode(audioData[i])) = FloatTo16BitPCM(ended[i])

\* A speech interval ended and was delivered, then a second interval was a
\* misfire: one payload has been delivered.
C26_Witness ==
    /\ recOp = "misfire"
    /\ ended = << <<-3, 1>> >>
    /\ Len(audioData) = 1
    /\ Int16sOf(Base64Decode(audioData[1])) = <<-32768, 16383>>

\* C30: while the hook is mounted, isSpeechDetected is true exactly when a
\* speech-start callback ran and no speech-end callback, misfire callback or
\* stopRecording() call has run since.
C30_SpeechActiveFlag ==
    recMounted => (isSpeechDetected <=> inSpeech)

(***************************************************************************)
(* A voice session with playback and capture: useLiveKitRoom mounted       *)
(* together with useAudioPlayer and useAudioRecorder.  The hooks share no  *)
(* state and none calls another; audio is played and captured while the    *)
(* session is connected.                                                   *)
(***************************************************************************)
InitHangup ==
    /\ TranscriptInit /\ AppInit /\ RecorderInit(TRUE)
    /\ PlayerInit("ok", "running")
    /\ SessionInit(HookRoom)

NextHangup ==
    \/ Connect
    \/ \E c \in CallIds : FetchOk(c, TRUE)
    \/ \E r \in RoomIds : RoomConnected(r)
    \/ \E c \in CallIds : ConnectResume(c)
    \/ \E c \in CallIds : MicResolved(c)
    \/ Disconnect
    \/ lkState.isConnected /\ PlayAudio("ok")
    \/ \E c \in PlayIds : ElementPlaySettled(c, TRUE)
    \/ \E c \in PlayIds : DecodeResolved(c)
    \/ \E s \in PlayIds : SourceFinished(s)
    \/ \E s \in PlayIds : SourceEnded(s)
    \/ lkState.isConnected /\ StartRecording
    \/ \E c \in StartIds : MediaGranted(c)
    \/ \E c \in StartIds : VadCreated(c, "ok")

SpecHangup == InitHangup /\ [][NextHangup]_vars

\* C21: a disconnect() of the session leaves no playback source in the
\* active-sources registry and no capture stream track live.
C21_DisconnectTearsDownAudio ==
    [][Disconnect =>
         /\ activeSources' = <<>>
         /\ \A c \in StartIds : streams'[c] # "live"]_vars
====
